---------------------------- MODULE Spec2Model ----------------------------
(***************************************************************************)
(* A model of diagtest: the standard-selection algebra of                  *)
(* MultilingualCompiler (compilers/multilingual.py), the assertion model   *)
(* (assertion.py), the template directives of Parser and the runner        *)
(* (driver.py, __init__.py).                                               *)
(*                                                                         *)
(* Python values are modelled as follows.  A str is a TLA+ string, a list  *)
(* or tuple is a sequence, None is the record NoneV.  Where the code       *)
(* tells an int from a str (isinstance), the value carries its type in a   *)
(* field t.  A call that may raise returns a record [ok, val, err].        *)
(***************************************************************************)
EXTENDS Integers, Sequences, FiniteSets, TLC

VARIABLES
    \* one MultilingualCompiler instance
    self,        \* [language, standards, selected_standards] of the instance
    std,         \* the std argument the instance was last built from
    call,        \* the last get_standards / expand_standard call and its outcome
    pcStd,       \* "new" | "ready" | "raised" | "cloned" | "queried" | "expanded"
    \* one Report and one Assertion checked against it
    report,      \* [returncode, diagnostics]
    assertion,   \* the Assertion last checked
    outcome,     \* what its check returned
    pcChk,       \* "report" | "checked"
    \* main, Runner.run and Test.run
    nfiles,      \* len(files)
    fileIdx,     \* the number of files a Runner was built for
    ntests,      \* len(self.tests) of the current Runner
    testIdx,     \* the number of its tests that were started
    test,        \* the Test being run
    results,     \* Test.run's results, one list of Reports per compiler
    todo,        \* the (compiler, assertion, result) iterations still to come
    evaluated,   \* the checks made in this Test.run so far, in order
    skips,       \* the compilers this Test.run printed a skip line for
    failed,      \* Test.run's failed
    returned,    \* what the last Test.run returned: "" | "True" | "False"
    allPassed,   \* no assertion has failed on any Report produced so far
    exitCode,    \* the exit status of the process, -1 while it runs
    pcRun,       \* "main" | "runner" | "checking" | "exited" | "raised"
    \* Parser: the template directives of one source file
    tests,       \* Parser.tests
    directive,   \* the directive last called, with its arguments
    raised,      \* the exception that ended the expansion, "" if none
    pcParse,     \* "expanding" | "raised"
    \* Collection.execute / Compiler.execute: the compiles of the tests
    gen,         \* the generator of the execute call being consumed
    invocations, \* the commands run so far, each with the name of its test
    yields,      \* what the generator being consumed has yielded
    nexec,       \* the number of execute calls made
    pcExec,      \* "ready" | "iterating" | "raised"
    \* discovery and the probes of one process
    host,        \* the machine: platform, PATH, Visual Studio
    cache,       \* what functools.cache holds for each cached function
    probes,      \* the PATH scans and external processes made so far
    built,       \* the compiler instances constructed so far
    request,     \* the request last made and how it ended
    candidates,  \* what find_executables last returned
    infos,       \* what discover last returned
    nreq,        \* the number of requests made
    \* Compiler.compile: one compile and its Report
    compiled,    \* the family, the streams of the process and the Report
    pcCompile,   \* "ready" | "compiled" | "raised"
    \* GCC.get_supported_standards: the standards of one gcc by language
    listing,     \* the alias groups its help text lists, in that order
    supported,   \* what the call gave: the lists by language, or what it raised
    pcStandards, \* "ready" | "returned" | "raised"
    \* toolchains combined with | in one source file
    heap,        \* the Collection objects alive, each the list of its compilers
    combined,    \* the operands and the result of the last |, and the heap before it
    keyed,       \* the toolchain the last assertion was added for
    nor          \* the number of | evaluated

stdVars == <<self, std, call, pcStd>>
chkVars == <<report, assertion, outcome, pcChk>>

runVars == <<nfiles, fileIdx, ntests, testIdx, test, results, todo, evaluated,
             skips, failed, returned, allPassed, exitCode, pcRun>>

parseVars == <<tests, directive, raised, pcParse>>

execVars == <<gen, invocations, yields, nexec, pcExec>>

discVars == <<host, cache, probes, built, request, candidates, infos, nreq>>

diagVars == <<compiled, pcCompile>>

ordVars == <<listing, supported, pcStandards>>

orVars == <<heap, combined, keyed, nor>>

vars == <<self, std, call, pcStd, report, assertion, outcome, pcChk,
          nfiles, fileIdx, ntests, testIdx, test, results, todo, evaluated,
          skips, failed, returned, allPassed, exitCode, pcRun,
          tests, directive, raised, pcParse,
          gen, invocations, yields, nexec, pcExec,
          host, cache, probes, built, request, candidates, infos, nreq,
          compiled, pcCompile,
          listing, supported, pcStandards,
          heap, combined, keyed, nor>>

-----------------------------------------------------------------------------
(* Bounds of the model *)

\* longest alias-group list of a dialect
MaxGroups == 4
\* longest list query
MaxList == 2
\* most diagnostics of one report
MaxDiag == 2
\* most files on the command line
MaxFiles == 2
\* most tests of one file
MaxTests == 2
\* most assertions bound to one compiler in one test
MaxAsserts == 2
\* most directives of one template
MaxDirectives == 3
\* most execute calls of one run
MaxExecutes == 2

-----------------------------------------------------------------------------
(* Python values *)

NoneV == [t |-> "None"]
PyInt(n) == [t |-> "int", v |-> n]
PyStr(s) == [t |-> "str", v |-> s]
PyList(l) == [t |-> "list", v |-> l]
PyTuple(l) == [t |-> "tuple", v |-> l]

Ok(v) == [ok |-> TRUE, val |-> v, err |-> ""]
Raise(e) == [ok |-> FALSE, val |-> <<>>, err |-> e]

\* f"{value}" of an int or a str
format(x) == IF x.t = "int" THEN ToString(x.v) ELSE x.v

\* seq[i:] and seq[:i] for 0 <= i
SliceFrom(seq, i) == SubSeq(seq, i + 1, Len(seq))
SliceTo(seq, i) == SubSeq(seq, 1, IF i < Len(seq) THEN i ELSE Len(seq))

\* the members of a tuple or list
Members(seq) == {seq[i] : i \in 1..Len(seq)}

-----------------------------------------------------------------------------
(* compilers/multilingual.py: the standard-selection algebra.  inst is the  *)
(* instance: [language, standards, selected_standards].                     *)

\* MultilingualCompiler.has_standard
has_standard(inst, standard) ==
    \E i \in 1..Len(inst.standards[inst.language]) :
        standard \in Members(inst.standards[inst.language][i])

\* expand_standard without the second has_standard check
expand_standard_unchecked(inst, standard) ==
    IF standard.t # "int" /\ has_standard(inst, standard.v)
    THEN Ok(standard.v)
    ELSE Ok(inst.language \o format(standard))

\* expand_standard without the verbatim return of a known alias
expand_standard_prefixing(inst, standard) ==
    IF has_standard(inst, inst.language \o format(standard))
    THEN Ok(inst.language \o format(standard))
    ELSE Raise("RuntimeError")

\* MultilingualCompiler.expand_standard; standard is PyInt(n) or PyStr(s)
expand_standard(inst, standard) ==
    IF standard.t # "int" /\ has_standard(inst, standard.v)
    THEN Ok(standard.v)
    ELSE LET expanded == inst.language \o format(standard)
         IN  IF has_standard(inst, expanded)
             THEN Ok(expanded)
             ELSE Raise("RuntimeError")

\* next(idx for idx, standard in enumerate(standards) if version in standard),
\* 0-based; -1 stands for StopIteration
FirstIndex(standards, version) ==
    LET found == {i \in 1..Len(standards) : version \in Members(standards[i])}
    IN  IF found = {} THEN -1
        ELSE (CHOOSE i \in found : \A j \in found : i <= j) - 1

\* filter_standards with index += include in place of include ^ greater
filter_standards_no_xor(inst, query, standards) ==
    LET stds == IF standards.t = "None"
                THEN inst.standards[inst.language]
                ELSE standards.v
        greater == SubSeq(query, 1, 1) = ">"
        include == SubSeq(query, 2, 2) = "="
        version == expand_standard(inst,
                       PyStr(SliceFrom(query, 1 + (IF include THEN 1 ELSE 0))))
    IN  IF ~version.ok THEN version
        ELSE LET idx == FirstIndex(stds, version.val)
                 index == idx + (IF include THEN 1 ELSE 0)
             IN  IF idx < 0 THEN Raise("RuntimeError")
                 ELSE Ok(IF greater THEN SliceFrom(stds, index)
                                    ELSE SliceTo(stds, index))

\* MultilingualCompiler.filter_standards; query is a str of two characters
\* or more, standards is NoneV or PyList(groups)
filter_standards(inst, query, standards) ==
    LET stds == IF standards.t = "None"
                THEN inst.standards[inst.language]
                ELSE standards.v
        greater == SubSeq(query, 1, 1) = ">"
        include == SubSeq(query, 2, 2) = "="
        version == expand_standard(inst,
                       PyStr(SliceFrom(query, 1 + (IF include THEN 1 ELSE 0))))
    IN  IF ~version.ok THEN version
        ELSE LET idx == FirstIndex(stds, version.val)
                 index == idx + (IF include # greater THEN 1 ELSE 0)
             IN  IF idx < 0 THEN Raise("RuntimeError")
                 ELSE Ok(IF greater THEN SliceFrom(stds, index)
                                    ELSE SliceTo(stds, index))

\* get_standards.unique: [*{standard: None for standard in standards}.keys()]
RECURSIVE unique(_)
unique(standards) ==
    IF standards = <<>> THEN <<>>
    ELSE LET rest == unique(SubSeq(standards, 1, Len(standards) - 1))
             last == standards[Len(standards)]
         IN  IF last \in Members(rest) THEN rest ELSE Append(rest, last)

\* get_standards.flatten
flatten(standards) ==
    unique([i \in 1..Len(standards) |-> standards[i][1]])

\* query.startswith(('>', '<'))
startswith_cmp(query) ==
    Len(query) > 0 /\ SubSeq(query, 1, 1) \in {">", "<"}

\* MultilingualCompiler.get_standards
get_standards(inst, query) ==
    CASE query.t = "None" ->
            Ok(flatten(inst.standards[inst.language]))
      [] query.t = "list" ->
            LET ex == [i \in 1..Len(query.v) |-> expand_standard(inst, query.v[i])]
            IN  IF \E i \in 1..Len(query.v) : ~ex[i].ok
                THEN Raise("RuntimeError")
                ELSE Ok(unique([i \in 1..Len(query.v) |-> ex[i].val]))
      [] query.t = "tuple" ->
            IF Len(query.v) # 2 THEN Raise("AssertionError")
            ELSE IF ~(SubSeq(query.v[1], 1, 1) = ">" /\ SubSeq(query.v[2], 1, 1) = "<")
            THEN Raise("AssertionError")
            ELSE LET inner == filter_standards(inst, query.v[1], NoneV)
                 IN  IF ~inner.ok THEN inner
                     ELSE LET outer == filter_standards(inst, query.v[2], PyList(inner.val))
                          IN  IF ~outer.ok THEN outer ELSE Ok(flatten(outer.val))
      [] query.t = "int" ->
            LET e == expand_standard(inst, query)
            IN  IF e.ok THEN Ok(<<e.val>>) ELSE e
      [] query.t = "str" ->
            IF startswith_cmp(query.v)
            THEN LET f == filter_standards(inst, query.v, NoneV)
                 IN  IF f.ok THEN Ok(flatten(f.val)) ELSE f
            ELSE LET e == expand_standard(inst, query)
                 IN  IF e.ok THEN Ok(<<e.val>>) ELSE e

\* the truth value of a query value, as `std or self.selected_standards` takes it
Truthy(x) ==
    CASE x.t = "None" -> FALSE
      [] x.t = "int" -> x.v # 0
      [] x.t = "str" -> x.v # ""
      [] OTHER -> x.v # <<>>

-----------------------------------------------------------------------------
(* The standards the probes report (the descriptor of one executable), and  *)
(* the queries a template passes as std.                                    *)

\* clang -xc++ -std=dummy: "use 'c++98' or 'c++03'", ...
ClangCpp ==
    << <<"c++98", "c++03">>, <<"c++11", "c++0x">>, <<"c++14", "c++1y">>,
       <<"c++17", "c++1z">>, <<"c++20", "c++2a">>, <<"c++23", "c++2b">> >>

\* cl /help: /std:<c++14|c++17|c++20|c++latest>, one group per token
MsvcCpp ==
    << <<"c++14">>, <<"c++17">>, <<"c++20">>, <<"c++latest">> >>

\* the contiguous parts of a probe's list that hold at most MaxGroups groups
Windows(groups) ==
    {SubSeq(groups, a, b) : a \in 1..Len(groups),
                            b \in 1..Len(groups)} \ {<<>>}

Descriptors ==
    {[l \in {"c++"} |-> w] :
        w \in {x \in Windows(ClangCpp) \cup Windows(MsvcCpp) : Len(x) <= MaxGroups}}

Languages == {"c++", "gnu++"}

IntTerms == {14, 17, 20}
StrTerms == {"17", "c++17", "c++1z", "20", "c++23", "latest", "gnu++17"}
Terms == {PyInt(n) : n \in IntTerms} \cup {PyStr(s) : s \in StrTerms}

\* the terms a list query or a range query is built from
ListTerms == {PyInt(17), PyStr("c++17"), PyStr("c++1z"), PyStr("20"), PyStr("gnu++17")}
RangeTerms == {"14", "17", "c++1z", "20", "23", "30"}

RECURSIVE SeqsUpTo(_, _)
SeqsUpTo(S, n) ==
    IF n = 0 THEN {<<>>}
    ELSE LET shorter == SeqsUpTo(S, n - 1)
         IN  shorter \cup {Append(q, x) : q \in shorter, x \in S}

OpenQueries == {PyStr(op \o s) : op \in {">", ">=", "<", "<="}, s \in StrTerms}
RangeQueries ==
    {PyTuple(<<lo \o a, hi \o b>>) :
        lo \in {">", ">="}, hi \in {"<", "<="}, a \in RangeTerms, b \in RangeTerms}
    \cup {PyTuple(<<"<=17", ">14">>), PyTuple(<<">=17">>)}
ListQueries == {PyList(l) : l \in SeqsUpTo(ListTerms, MaxList)}

Queries == {NoneV} \cup Terms \cup OpenQueries \cup RangeQueries \cup ListQueries

\* the std arguments tried on a clone
CloneQueries == {NoneV, PyList(<<>>), PyStr(""), PyInt(17), PyStr(">=17")}

\* a list of str as a query value
StrList(names) == PyList([i \in 1..Len(names) |-> PyStr(names[i])])

NoCall == [op |-> "", arg |-> NoneV, result |-> Raise("")]

-----------------------------------------------------------------------------
(* One MultilingualCompiler instance: construction, cloning, queries.       *)

StdInit ==
    /\ \E d \in Descriptors, l \in Languages :
          self = [language |-> l, standards |-> d, selected_standards |-> <<>>]
    /\ std = NoneV
    /\ call = NoCall
    /\ pcStd = "new"

\* MultilingualCompiler.__init__(language, std=q): the instance holds its
\* language and the probe's standards; the body asserts and selects.  The
\* message of the failing assert reads language.name of a str, which raises
\* AttributeError in its place
Construct(q) ==
    /\ pcStd = "new"
    /\ std' = q
    /\ IF self.language \notin DOMAIN self.standards
       THEN /\ call' = [op |-> "__init__", arg |-> q, result |-> Raise("AttributeError")]
            /\ pcStd' = "raised"
            /\ self' = self
       ELSE LET r == get_standards(self, q)
            IN  /\ call' = [op |-> "__init__", arg |-> q, result |-> r]
                /\ pcStd' = IF r.ok THEN "ready" ELSE "raised"
                /\ self' = IF r.ok THEN [self EXCEPT !.selected_standards = r.val]
                                   ELSE self
    /\ UNCHANGED <<chkVars, runVars, parseVars, execVars, discVars, diagVars, ordVars, orVars>>

\* MultilingualCompiler.__call__(std=q): type(self)(language=self.language,
\* std=q or self.selected_standards, ...)
Clone(q) ==
    /\ pcStd = "ready"
    /\ LET arg == IF Truthy(q) THEN q ELSE StrList(self.selected_standards)
           r == get_standards(self, arg)
       IN  /\ call' = [op |-> "__call__", arg |-> q, result |-> r]
           /\ pcStd' = IF r.ok THEN "cloned" ELSE "raised"
           /\ self' = IF r.ok THEN [self EXCEPT !.selected_standards = r.val]
                              ELSE self
    /\ UNCHANGED std
    /\ UNCHANGED <<chkVars, runVars, parseVars, execVars, discVars, diagVars, ordVars, orVars>>

\* self.get_standards(self.selected_standards) on a built instance
Requery ==
    /\ pcStd = "ready"
    /\ call' = [op |-> "get_standards", arg |-> StrList(self.selected_standards),
                result |-> get_standards(self, StrList(self.selected_standards))]
    /\ pcStd' = "queried"
    /\ UNCHANGED <<self, std>>
    /\ UNCHANGED <<chkVars, runVars, parseVars, execVars, discVars, diagVars, ordVars, orVars>>

\* self.expand_standard(term) on an instance built without std
ExpandStandard(term) ==
    /\ pcStd = "ready"
    /\ std = NoneV
    /\ call' = [op |-> "expand_standard", arg |-> term,
                result |-> expand_standard(self, term)]
    /\ pcStd' = "expanded"
    /\ UNCHANGED <<self, std>>
    /\ UNCHANGED <<chkVars, runVars, parseVars, execVars, discVars, diagVars, ordVars, orVars>>

StdNext ==
    \/ \E q \in Queries : Construct(q)
    \/ \E q \in CloneQueries : Clone(q)
    \/ Requery
    \/ \E term \in Terms : ExpandStandard(term)

-----------------------------------------------------------------------------
(* report.py and assertion.py: a Report, and the check of one Assertion.    *)

Levels == {"note", "warning", "error", "fatal error"}

\* Diagnostic(message, source_location, error_code); error_code is NoneV or
\* PyStr(code).  The source location takes no part in any check.
Diagnostic(message, error_code) == [message |-> message, error_code |-> error_code]

\* Report(...), diagnostics = defaultdict(list)
NewReport(returncode) ==
    [returncode |-> returncode, diagnostics |-> [l \in Levels |-> <<>>]]

\* Report.extend for one (level, diagnostic) pair
extend(result, level, diagnostic) ==
    [result EXCEPT !.diagnostics[level] = Append(@, diagnostic)]

\* re.match(pattern, message) for a pattern of literal characters, "." and
\* "^": the pattern is matched from the first character of message on, and
\* the match may end before the message does
RECURSIVE re_match(_, _, _)
re_match(pattern, message, at_start) ==
    IF pattern = "" THEN TRUE
    ELSE IF Head(pattern) = "^"
    THEN at_start /\ re_match(Tail(pattern), message, at_start)
    ELSE IF message = "" THEN FALSE
    ELSE IF Head(pattern) = "." \/ Head(pattern) = Head(message)
    THEN re_match(Tail(pattern), Tail(message), FALSE)
    ELSE FALSE

\* Message.__init__(level, text, regex); text and regex are NoneV or PyStr
Message(level, text, regex) ==
    [kind |-> "Message",
     level |-> level,
     regex |-> regex.t # "None",
     text |-> IF regex.t # "None" THEN regex ELSE text]

ReturnCode(expected) == [kind |-> "ReturnCode", expected |-> expected]
ErrorCode(expected) == [kind |-> "ErrorCode", expected |-> expected]

\* Message.check.check_one
check_one(a, message) ==
    IF a.regex
    THEN re_match(a.text.v, message, TRUE)
    ELSE a.text.t = "str" /\ a.text.v = message

\* Message.check that looks through every severity bucket
Message_check_any_level(a, result) ==
    \E l \in Levels : \E i \in 1..Len(result.diagnostics[l]) :
        check_one(a, result.diagnostics[l][i].message)

\* Message.check
Message_check(a, result) ==
    \E i \in 1..Len(result.diagnostics[a.level]) :
        check_one(a, result.diagnostics[a.level][i].message)

\* ReturnCode.check
ReturnCode_check(a, result) == result.returncode = a.expected

\* ErrorCode.check that looks through the error bucket only
ErrorCode_check_errors_only(a, result) ==
    \E i \in 1..Len(result.diagnostics["error"]) :
        LET d == result.diagnostics["error"][i]
        IN  /\ d.error_code.t # "None"
            /\ a.expected.t = "str" /\ d.error_code.v = a.expected.v

\* ErrorCode.check
ErrorCode_check(a, result) ==
    \E l \in Levels : \E i \in 1..Len(result.diagnostics[l]) :
        LET d == result.diagnostics[l][i]
        IN  /\ d.error_code.t # "None"
            /\ a.expected.t = "str" /\ d.error_code.v = a.expected.v

\* assertion.check(result)
check(a, result) ==
    CASE a.kind = "Message" -> Message_check(a, result)
      [] a.kind = "ReturnCode" -> ReturnCode_check(a, result)
      [] a.kind = "ErrorCode" -> ErrorCode_check(a, result)

\* the messages and error codes compilers emit, and what templates assert
Messages == {"ab", "abc"}
Codes == {NoneV, PyStr("C2118")}
Diagnostics == {Diagnostic(m, c) : m \in Messages, c \in Codes}
Texts == {PyStr("ab"), PyStr("abc"), PyStr("b")}
Patterns == {PyStr("ab"), PyStr("^ab"), PyStr("a.c"), PyStr("b"), PyStr("abcd")}

MessageAssertions ==
    {Message(l, t, NoneV) : l \in Levels, t \in Texts}
    \cup {Message(l, NoneV, r) : l \in Levels, r \in Patterns}
ErrorCodeAssertions == {ErrorCode(c) : c \in {NoneV, PyStr("C2118"), PyStr("C1001")}}
ReturnCodeAssertions == {ReturnCode(n) : n \in {0, 1}}
Assertions == MessageAssertions \cup ErrorCodeAssertions \cup ReturnCodeAssertions

NoAssertion == [kind |-> ""]

ChkInit ==
    /\ \E rc \in {0, 1} : report = NewReport(rc)
    /\ assertion = NoAssertion
    /\ outcome = FALSE
    /\ pcChk = "report"

DiagCount(result) ==
    Len(result.diagnostics["note"]) + Len(result.diagnostics["warning"])
    + Len(result.diagnostics["error"]) + Len(result.diagnostics["fatal error"])

\* Report.extend: the next parsed (level, diagnostic) is appended
Extend(level, diagnostic) ==
    /\ pcChk = "report"
    /\ DiagCount(report) < MaxDiag
    /\ report' = extend(report, level, diagnostic)
    /\ UNCHANGED <<assertion, outcome, pcChk>>
    /\ UNCHANGED <<stdVars, runVars, parseVars, execVars, discVars, diagVars, ordVars, orVars>>

\* assertion.check(result)
Check(a) ==
    /\ pcChk = "report"
    /\ assertion' = a
    /\ outcome' = check(a, report)
    /\ pcChk' = "checked"
    /\ UNCHANGED report
    /\ UNCHANGED <<stdVars, runVars, parseVars, execVars, discVars, diagVars, ordVars, orVars>>

ChkNext ==
    \/ \E l \in Levels, d \in Diagnostics : Extend(l, d)
    \/ \E a \in Assertions : Check(a)

-----------------------------------------------------------------------------
(* driver.py and __init__.py: main, Runner.run and Test.run.                *)

\* available that holds of every toolchain
available_always(compiler) == TRUE

\* Collection.available, Compiler.available
available(compiler) ==
    IF compiler.kind = "Collection" THEN Len(compiler.data) # 0 ELSE TRUE

\* the number of Reports compiler.run_test yields: one per selected standard
\* of each compiler of the toolchain
RECURSIVE ReportCount(_)
ReportCount(data) ==
    IF data = <<>> THEN 0
    ELSE Len(Head(data).selected_standards) + ReportCount(Tail(data))

run_test_count(compiler) == ReportCount(compiler.data)

\* Test.run's loops: for compiler, assertions in self.assertions.items():
\* (skipped if not compiler.available) for assertion in assertions:
\* for result in results[compiler]; the iterations in order
RECURSIVE ForResults(_, _, _, _)
ForResults(e, a, n, r) ==
    IF r > n THEN <<>>
    ELSE <<[compiler |-> e, assertion |-> a, result |-> r]>> \o ForResults(e, a, n, r + 1)

RECURSIVE ForAssertions(_, _, _, _)
ForAssertions(e, assertions, n, a) ==
    IF a > Len(assertions) THEN <<>>
    ELSE ForResults(e, a, n, 1) \o ForAssertions(e, assertions, n, a + 1)

\* the loops with a break after the first result of each assertion
RECURSIVE loops_first_result(_, _, _)
loops_first_result(t, res, e) ==
    IF e > Len(t.assertions) THEN <<>>
    ELSE (IF ~available(t.assertions[e].compiler) THEN <<>>
          ELSE ForAssertions(e, t.assertions[e].assertions,
                             IF Len(res[e]) > 1 THEN 1 ELSE Len(res[e]), 1))
         \o loops_first_result(t, res, e + 1)

RECURSIVE loops(_, _, _)
loops(t, res, e) ==
    IF e > Len(t.assertions) THEN <<>>
    ELSE (IF ~available(t.assertions[e].compiler) THEN <<>>
          ELSE ForAssertions(e, t.assertions[e].assertions, Len(res[e]), 1))
         \o loops(t, res, e + 1)


\* Test.run's loops: the compilers that are not available, for each of which
\* "Compiler ... - skipped" is printed, in order
RECURSIVE skip_lines(_, _)
skip_lines(t, e) ==
    IF e > Len(t.assertions) THEN <<>>
    ELSE (IF ~available(t.assertions[e].compiler) THEN <<e>> ELSE <<>>)
         \o skip_lines(t, e + 1)

\* if not success: failed = True, written as failed = not success
update_failed_last(was_failed, success) == ~success

\* if not success: failed = True
update_failed(was_failed, success) == was_failed \/ ~success

\* raise SystemExit(not all(...)): the exit status of SystemExit(bool)
exit_status(all_passed) == IF ~all_passed THEN 1 ELSE 0

\* the toolchains of load_defaults: a Collection of the discovered compilers,
\* empty where none was found; id tells the objects apart
gcc == [id |-> "gcc", kind |-> "Collection",
        data |-> <<[family |-> "GCC", selected_standards |-> <<"c++17", "c++20">>]>>]
msvc == [id |-> "msvc", kind |-> "Collection", data |-> <<>>]
clang == [id |-> "clang", kind |-> "Collection", data |-> <<>>]
\* two instances built with the same executable, options and std, as
\* GCC(executable=..., std=17) called twice, or an instance and its clone
gccX == [id |-> "x", kind |-> "Compiler",
         data |-> <<[family |-> "GCC", selected_standards |-> <<"c++17">>]>>]
gccY == [id |-> "y", kind |-> "Compiler",
         data |-> <<[family |-> "GCC", selected_standards |-> <<"c++17">>]>>]
RunToolchains == {gcc, msvc}

\* the assertions and the compiler outputs of the runs
RunAssertions == {Message("error", PyStr("ab"), NoneV), ReturnCode(0)}
RunReports == {NewReport(0), extend(NewReport(1), "error", Diagnostic("ab", NoneV))}

AssertionLists == SeqsUpTo(RunAssertions, MaxAsserts) \ {<<>>}
Entries == [compiler : RunToolchains, assertions : AssertionLists]
\* Test.assertions: the dict's items in insertion order, the keys distinct
EntryLists ==
    {<<>>} \cup {<<e>> : e \in Entries}
    \cup {<<p[1], p[2]>> : p \in {q \in Entries \X Entries : q[1].compiler # q[2].compiler}}
RunTests == {[identifier |-> "T", name |-> "t", assertions |-> es] : es \in EntryLists}

NoTest == [identifier |-> "", name |-> "", assertions |-> <<>>]

RunInit ==
    /\ nfiles \in 0..MaxFiles
    /\ fileIdx = 0
    /\ ntests = 0
    /\ testIdx = 0
    /\ test = NoTest
    /\ results = <<>>
    /\ todo = <<>>
    /\ evaluated = <<>>
    /\ skips = <<>>
    /\ failed = FALSE
    /\ returned = ""
    /\ allPassed = TRUE
    /\ exitCode = -1
    /\ pcRun = "main"

\* main: if not files: raise RuntimeError("Input files missing")
NoFiles ==
    /\ pcRun = "main"
    /\ nfiles = 0
    /\ pcRun' = "raised"
    /\ exitCode' = 1
    /\ UNCHANGED <<skips, nfiles, fileIdx, ntests, testIdx, test, results, todo,
                   evaluated, failed, returned, allPassed>>
    /\ UNCHANGED <<stdVars, chkVars, parseVars, execVars, discVars, diagVars, ordVars, orVars>>

\* main: Runner(path, output, language) for the next path; the template
\* expanded into n tests
NewRunner(n) ==
    /\ pcRun = "main"
    /\ fileIdx < nfiles
    /\ fileIdx' = fileIdx + 1
    /\ ntests' = n
    /\ testIdx' = 0
    /\ pcRun' = "runner"
    /\ UNCHANGED <<skips, nfiles, test, results, todo, evaluated, failed, returned,
                   allPassed, exitCode>>
    /\ UNCHANGED <<stdVars, chkVars, parseVars, execVars, discVars, diagVars, ordVars, orVars>>

\* main: Runner(path, output, language) raises while the template expands
RunnerRaises ==
    /\ pcRun = "main"
    /\ fileIdx < nfiles
    /\ fileIdx' = fileIdx + 1
    /\ pcRun' = "raised"
    /\ exitCode' = 1
    /\ UNCHANGED <<skips, nfiles, ntests, testIdx, test, results, todo, evaluated,
                   failed, returned, allPassed>>
    /\ UNCHANGED <<stdVars, chkVars, parseVars, execVars, discVars, diagVars, ordVars, orVars>>

\* results = {compiler: list(compiler.run_test(...)) for compiler in
\* self.compilers}, kept in the order of the dict's items
Results(t) ==
    {res \in [1..Len(t.assertions) -> UNION {[1..run_test_count(c) -> RunReports] : c \in RunToolchains}] :
        \A e \in 1..Len(t.assertions) :
            Len(res[e]) = run_test_count(t.assertions[e].compiler)}

\* Test.run up to its loops: the next test t of the file is run, res are the
\* Reports its compilers produce
StartTest ==
    /\ pcRun = "runner"
    /\ testIdx < ntests
    /\ \E t \in RunTests : \E res \in Results(t) :
          /\ test' = t
          /\ results' = res
          /\ todo' = loops(t, res, 1)
          /\ skips' = skip_lines(t, 1)
          /\ allPassed' = (allPassed /\
                \A e \in 1..Len(t.assertions) :
                \A a \in 1..Len(t.assertions[e].assertions) :
                \A r \in 1..Len(res[e]) :
                    check(t.assertions[e].assertions[a], res[e][r]))
    /\ testIdx' = testIdx + 1
    /\ failed' = FALSE
    /\ evaluated' = <<>>
    /\ returned' = ""
    /\ pcRun' = "checking"
    /\ UNCHANGED <<nfiles, fileIdx, ntests, exitCode>>
    /\ UNCHANGED <<stdVars, chkVars, parseVars, execVars, discVars, diagVars, ordVars, orVars>>

\* Test.run: one iteration of the innermost loop
CheckPair ==
    /\ pcRun = "checking"
    /\ todo # <<>>
    /\ LET it == Head(todo)
           success == check(test.assertions[it.compiler].assertions[it.assertion],
                            results[it.compiler][it.result])
       IN  /\ failed' = update_failed(failed, success)
           /\ evaluated' = Append(evaluated,
                 [compiler |-> it.compiler, assertion |-> it.assertion,
                  result |-> it.result, success |-> success])
    /\ todo' = Tail(todo)
    /\ UNCHANGED <<skips, nfiles, fileIdx, ntests, testIdx, test, results, returned,
                   allPassed, exitCode, pcRun>>
    /\ UNCHANGED <<stdVars, chkVars, parseVars, execVars, discVars, diagVars, ordVars, orVars>>

\* Test.run: return not failed, which ends its locals.  Runner.run's
\* all(...) and main's all(...) stop at the first False, and main raises
\* SystemExit(not all(...))
FinishTest ==
    /\ pcRun = "checking"
    /\ todo = <<>>
    /\ returned' = IF failed THEN "False" ELSE "True"
    /\ IF failed
       THEN /\ pcRun' = "exited"
            /\ exitCode' = exit_status(FALSE)
       ELSE /\ pcRun' = "runner"
            /\ UNCHANGED exitCode
    /\ test' = NoTest
    /\ results' = <<>>
    /\ evaluated' = <<>>
    /\ skips' = <<>>
    /\ failed' = FALSE
    /\ UNCHANGED <<nfiles, fileIdx, ntests, testIdx, todo, allPassed>>
    /\ UNCHANGED <<stdVars, chkVars, parseVars, execVars, discVars, diagVars, ordVars, orVars>>

\* Runner.run: every test returned True, all(...) is True; main goes on to
\* the next path or raises SystemExit(not all(...))
FileDone ==
    /\ pcRun = "runner"
    /\ testIdx = ntests
    /\ IF fileIdx < nfiles
       THEN /\ pcRun' = "main"
            /\ UNCHANGED exitCode
       ELSE /\ pcRun' = "exited"
            /\ exitCode' = exit_status(TRUE)
    /\ UNCHANGED <<skips, nfiles, fileIdx, ntests, testIdx, test, results, todo,
                   evaluated, failed, returned, allPassed>>
    /\ UNCHANGED <<stdVars, chkVars, parseVars, execVars, discVars, diagVars, ordVars, orVars>>

RunNext ==
    \/ NoFiles
    \/ \E n \in 0..MaxTests : NewRunner(n)
    \/ RunnerRaises
    \/ StartTest
    \/ CheckPair
    \/ FinishTest
    \/ FileDone

-----------------------------------------------------------------------------
(* driver.py: Parser, the directives a template calls while it expands.     *)

\* str.upper() on the characters of the test names
UpperChar(c) ==
    CASE c = "a" -> "A"
      [] c = "b" -> "B"
      [] OTHER -> c

\* language_definition.identifier(name): the name in upper case, its
\* whitespace replaced by "_"
RECURSIVE identifier(_)
identifier(name) ==
    IF name = "" THEN ""
    ELSE (IF Head(name) = " " THEN "_" ELSE UpperChar(Head(name)))
         \o identifier(Tail(name))

\* Test(identifier, name): assertions = defaultdict(list), kept as the
\* dict's items in insertion order
Test(ident, name) == [identifier |-> ident, name |-> name, assertions |-> <<>>]

\* key == compiler as the dict takes it: the same object, or __eq__; a
\* Compiler has no __eq__, a Collection (UserList) compares its data
KeyEq(key, compiler) ==
    \/ key.id = compiler.id
    \/ key.kind = "Collection" /\ compiler.kind = "Collection"
       /\ key.data = compiler.data

\* self.assertions[compiler]: the positions the lookup may find, 0 for a new
\* key.  A Compiler hashes by identity.  Collection.__hash__ is
\* hash(iter(self)), the address of a temporary: the value may or may not
\* be the one an equal key was stored under, so the lookup finds any of the
\* equal keys or none
Slots(assertions, compiler) ==
    LET equal == {i \in 1..Len(assertions) : KeyEq(assertions[i].compiler, compiler)}
    IN  IF compiler.kind = "Collection" THEN equal \cup {0}
        ELSE IF equal = {} THEN {0} ELSE equal

\* Test.add_assertion, the lookup finding slot k
add_assertion(t, compiler, a, k) ==
    IF k = 0
    THEN [t EXCEPT !.assertions =
             Append(@, [compiler |-> compiler, assertions |-> <<a>>])]
    ELSE [t EXCEPT !.assertions[k].assertions = Append(@, a)]

\* self.tests[-1].add_assertion(compiler, assertion)
bind(tsts, compiler, a, k) ==
    [tsts EXCEPT ![Len(tsts)] = add_assertion(@, compiler, a, k)]

\* the directives called so far that did not raise
RECURSIVE Bound(_)
Bound(assertions) ==
    IF assertions = <<>> THEN 0
    ELSE Len(Head(assertions).assertions) + Bound(Tail(assertions))

RECURSIVE Called(_)
Called(tsts) ==
    IF tsts = <<>> THEN 0
    ELSE 1 + Bound(Head(tsts).assertions) + Called(Tail(tsts))

Directive(name, compiler, text, regex, code) ==
    [name |-> name, compiler |-> compiler, text |-> text, regex |-> regex,
     code |-> code]

NoCompiler == [id |-> "", kind |-> "", data |-> <<>>]

ParseInit ==
    /\ tests = <<>>
    /\ directive = Directive("", NoCompiler, NoneV, NoneV, NoneV)
    /\ raised = ""
    /\ pcParse = "expanding"

CanCall == pcParse = "expanding" /\ Called(tests) < MaxDirectives

\* Parser.test(name)
TestDirective(name) ==
    /\ CanCall
    /\ directive' = Directive("test", NoCompiler, PyStr(name), NoneV, NoneV)
    /\ tests' = Append(tests, Test(identifier(name), name))
    /\ UNCHANGED <<raised, pcParse>>
    /\ UNCHANGED <<stdVars, chkVars, runVars, execVars, discVars, diagVars, ordVars, orVars>>

\* self.tests[-1].add_assertion(compiler, a) of a directive called as d;
\* without a test, self.tests[-1] raises IndexError
BindDirective(d, a) ==
    /\ directive' = d
    /\ IF tests = <<>>
       THEN /\ raised' = "IndexError"
            /\ pcParse' = "raised"
            /\ UNCHANGED tests
       ELSE /\ \E k \in Slots(tests[Len(tests)].assertions, d.compiler) :
                  tests' = bind(tests, d.compiler, a, k)
            /\ UNCHANGED <<raised, pcParse>>
    /\ UNCHANGED <<stdVars, chkVars, runVars, execVars, discVars, diagVars, ordVars, orVars>>

\* Parser.note(compiler, text, regex=regex)
note(compiler, text, regex) ==
    /\ CanCall
    /\ BindDirective(Directive("note", compiler, text, regex, NoneV),
                     Message("note", text, regex))

\* Parser.warning(compiler, text, regex=regex)
warning(compiler, text, regex) ==
    /\ CanCall
    /\ BindDirective(Directive("warning", compiler, text, regex, NoneV),
                     Message("warning", text, regex))

\* Parser.error(compiler, text, regex=regex)
error(compiler, text, regex) ==
    /\ CanCall
    /\ BindDirective(Directive("error", compiler, text, regex, NoneV),
                     Message("error", text, regex))

\* Parser.fatal_error(compiler, text, regex=regex)
fatal_error(compiler, text, regex) ==
    /\ CanCall
    /\ BindDirective(Directive("fatal_error", compiler, text, regex, NoneV),
                     Message("fatal error", text, regex))

\* Parser.return_code(compiler, code)
return_code(compiler, code) ==
    /\ CanCall
    /\ BindDirective(Directive("return_code", compiler, NoneV, NoneV, PyInt(code)),
                     ReturnCode(code))

\* Parser.error_code(compiler, code)
error_code(compiler, code) ==
    /\ CanCall
    /\ BindDirective(Directive("error_code", compiler, NoneV, NoneV, code),
                     ErrorCode(code))

\* what the templates pass
TestNames == {"a", "a b", "A b", "a_b"}
TextArgs == {NoneV, PyStr("ab")}
RegexArgs == {NoneV, PyStr("^ab")}

ParseNext ==
    \/ \E name \in TestNames : TestDirective(name)
    \/ \E text \in TextArgs, regex \in RegexArgs : note(gcc, text, regex)
    \/ \E text \in TextArgs, regex \in RegexArgs : warning(gcc, text, regex)
    \/ \E c \in {gcc, msvc}, text \in TextArgs, regex \in RegexArgs :
          error(c, text, regex)
    \/ \E text \in TextArgs, regex \in RegexArgs : fatal_error(gcc, text, regex)
    \/ \E c \in {gcc, gccX, gccY} : return_code(c, 0)
    \/ \E c \in {msvc, clang} : error_code(c, PyStr("C2118"))

-----------------------------------------------------------------------------
(* compiler.py, compilers/gcc.py, compilers/msvc.py, compilers/clang.py:    *)
(* execute, the compiles of one test with one toolchain.                    *)

\* an instance of a family: its executable, options and selected standards
Instance(family, executable, options, selected) ==
    [family |-> family, compiler |-> executable, options |-> options,
     selected_standards |-> selected]

\* Compiler.compile: command = [str(self.compiler), *args, str(file)]
compile_command(inst, file, args) == <<inst.compiler>> \o args \o <<file>>

\* the arguments GCC.execute passes to compile for one standard
gcc_args(inst, standard, test_id) ==
    <<"-std=" \o standard>> \o inst.options \o <<"-D" \o test_id>>

\* the arguments MSVC.execute passes to compile for one standard
msvc_args(inst, standard, test_id) ==
    <<"/std:" \o standard>> \o inst.options \o <<"/D" \o test_id>>

\* the arguments of a family that defines execute; Clang defines none and
\* inherits Compiler.execute
defines_execute(family) == family \in {"GCC", "MSVC"}

execute_args(inst, standard, test_id) ==
    IF inst.family = "MSVC" THEN msvc_args(inst, standard, test_id)
    ELSE gcc_args(inst, standard, test_id)

\* str(self) is VersionedCompiler.__str__, which asks get_version(self.compiler):
\* GCC.get_version raises NameError (gcc.py does not import os)
str_raises(inst) == inst.family = "GCC"

\* name = f"{str(self)} ({standard})", str(self) written as the family name
report_name(inst, standard) == inst.family \o " (" \o standard \o ")"

\* the source passed to every compile
SourceFile == "t.cpp"

ExecFamilies == {"GCC", "Clang", "MSVC"}
ExecOptions == {<<>>, <<"-Wall", "-O2">>}
ExecSelected == {<<>>, <<"c++17">>, <<"c++20", "c++17">>}
ExecPath(family) ==
    CASE family = "GCC" -> "/usr/bin/gcc"
      [] family = "Clang" -> "/usr/bin/clang"
      [] family = "MSVC" -> "cl.exe"
Instances ==
    {Instance(f, ExecPath(f), o, sel) :
        f \in ExecFamilies, o \in ExecOptions, sel \in ExecSelected}

\* the toolchains a test binds: an instance built with executable=..., the
\* Collection that discovery builds (empty when nothing was found), and the
\* Collection that | builds of two instances
ExecToolchains ==
    {[kind |-> "Compiler", data |-> <<i>>] : i \in Instances}
    \cup {[kind |-> "Collection", data |-> <<>>]}
    \cup {[kind |-> "Collection", data |-> <<i>>] : i \in Instances}
    \cup {[kind |-> "Collection",
           data |-> <<Instance(g, ExecPath(g), <<>>, <<"c++17">>),
                      Instance(f, ExecPath(f), <<>>, <<"c++20", "c++17">>)>>] :
             g \in {"GCC", "MSVC"}, f \in ExecFamilies}

NoGen == [test |-> "", test_id |-> "", toolchain |-> [kind |-> "", data |-> <<>>],
          ci |-> 0, si |-> 0]

ExecInit ==
    /\ gen = NoGen
    /\ invocations = <<>>
    /\ yields = <<>>
    /\ nexec = 0
    /\ pcExec = "ready"

\* results: list(compiler.execute(source, self.identifier)) is called for the
\* test registered as name and one of its toolchains; the generator starts
\* at the first compiler
Execute(toolchain, name) ==
    /\ pcExec = "ready"
    /\ nexec < MaxExecutes
    /\ nexec' = nexec + 1
    /\ gen' = [test |-> name, test_id |-> identifier(name),
               toolchain |-> toolchain, ci |-> 1, si |-> 1]
    /\ yields' = <<>>
    /\ pcExec' = "iterating"
    /\ UNCHANGED invocations
    /\ UNCHANGED <<stdVars, chkVars, runVars, parseVars, discVars, diagVars, ordVars, orVars>>

\* GCC.execute, MSVC.execute: the next standard of the current compiler is
\* compiled and (name, Report) is yielded
CompileNext ==
    /\ pcExec = "iterating"
    /\ gen.ci <= Len(gen.toolchain.data)
    /\ LET inst == gen.toolchain.data[gen.ci]
       IN  /\ defines_execute(inst.family)
           /\ gen.si <= Len(inst.selected_standards)
           /\ ~str_raises(inst)
           /\ LET standard == inst.selected_standards[gen.si]
                  command == compile_command(inst, SourceFile,
                                 execute_args(inst, standard, gen.test_id))
              IN  /\ invocations' = Append(invocations,
                         [test |-> gen.test, command |-> command])
                  /\ yields' = Append(yields,
                         [name |-> report_name(inst, standard),
                          command |-> command])
           /\ gen' = [gen EXCEPT !.si = @ + 1]
    /\ UNCHANGED <<nexec, pcExec>>
    /\ UNCHANGED <<stdVars, chkVars, runVars, parseVars, discVars, diagVars, ordVars, orVars>>

\* GCC.execute: the name of the first report is formatted before anything
\* is compiled, and str(self) raises
FormatRaises ==
    /\ pcExec = "iterating"
    /\ gen.ci <= Len(gen.toolchain.data)
    /\ LET inst == gen.toolchain.data[gen.ci]
       IN  /\ defines_execute(inst.family)
           /\ gen.si <= Len(inst.selected_standards)
           /\ str_raises(inst)
    /\ pcExec' = "raised"
    /\ UNCHANGED <<gen, invocations, yields, nexec>>
    /\ UNCHANGED <<stdVars, chkVars, runVars, parseVars, discVars, diagVars, ordVars, orVars>>

\* GCC.execute, MSVC.execute: the standards of the current compiler are
\* through; Collection.execute goes on to its next compiler
NextCompiler ==
    /\ pcExec = "iterating"
    /\ gen.ci <= Len(gen.toolchain.data)
    /\ LET inst == gen.toolchain.data[gen.ci]
       IN  /\ defines_execute(inst.family)
           /\ gen.si > Len(inst.selected_standards)
    /\ gen' = [gen EXCEPT !.ci = @ + 1, !.si = 1]
    /\ UNCHANGED <<invocations, yields, nexec, pcExec>>
    /\ UNCHANGED <<stdVars, chkVars, runVars, parseVars, discVars, diagVars, ordVars, orVars>>

\* Compiler.execute: raise NotImplementedError(), for a family that does
\* not define execute
ExecuteRaises ==
    /\ pcExec = "iterating"
    /\ gen.ci <= Len(gen.toolchain.data)
    /\ ~defines_execute(gen.toolchain.data[gen.ci].family)
    /\ pcExec' = "raised"
    /\ UNCHANGED <<gen, invocations, yields, nexec>>
    /\ UNCHANGED <<stdVars, chkVars, runVars, parseVars, discVars, diagVars, ordVars, orVars>>

\* the generator is exhausted: list(...) returns what was yielded
Exhausted ==
    /\ pcExec = "iterating"
    /\ gen.ci > Len(gen.toolchain.data)
    /\ pcExec' = "ready"
    /\ UNCHANGED <<gen, invocations, yields, nexec>>
    /\ UNCHANGED <<stdVars, chkVars, runVars, parseVars, discVars, diagVars, ordVars, orVars>>

ExecNext ==
    \/ \E toolchain \in ExecToolchains, name \in TestNames :
          Execute(toolchain, name)
    \/ CompileNext
    \/ FormatRaises
    \/ NextCompiler
    \/ ExecuteRaises
    \/ Exhausted

-----------------------------------------------------------------------------
(* util.py, compiler.py, gcc.py, msvc.py: discovery of executables and the  *)
(* probes of one process.  clang.py is left out: its import of Language     *)
(* from multilingual.py fails, so the module defines nothing.               *)

\* the most requests made of one process
MaxRequests == 3

DiscFamilies == {"GCC", "MSVC"}
VsArch == <<"x86", "amd64">>

File(name, real) == [name |-> name, real |-> real]
Dir(name, exists, files) == [name |-> name, exists |-> exists, files |-> files]

\* the hosts: platform.system(), the directories PATH lists with their
\* files (name and file.resolve()), and what shutil.which("cl", ...) finds in
\* the environment of each architecture ("" for None)
UsrBin ==
    Dir("/usr/bin", TRUE,
        <<File("g++", "/usr/bin/g++-12"), File("gcc", "/usr/bin/gcc-12"),
          File("gcc-12", "/usr/bin/gcc-12")>>)
Bin == Dir("/bin", TRUE, UsrBin.files)
OptBin == Dir("/opt/bin", TRUE, <<File("gcc-13", "/opt/bin/gcc-13")>>)
Mingw == Dir("C:/mingw/bin", TRUE, <<File("gcc.exe", "C:/mingw/bin/gcc.exe")>>)
Missing == Dir("/snap/bin", FALSE, <<>>)
NoCl == [a \in {"x86", "amd64"} |-> ""]
VsCl == [a \in {"x86", "amd64"} |-> "C:/VS/" \o a \o "/cl.exe"]

Host(system, path, cl) == [system |-> system, path |-> path, cl |-> cl]
Hosts ==
    {Host("Linux", <<Missing>>, NoCl),
     Host("Linux", <<OptBin>>, NoCl),
     Host("Linux", <<Missing, UsrBin>>, NoCl),
     Host("Linux", <<UsrBin, Bin>>, NoCl),
     Host("Linux", <<OptBin, UsrBin>>, NoCl),
     Host("Windows", <<Missing>>, VsCl),
     Host("Windows", <<Mingw>>, [VsCl EXCEPT !["x86"] = ""])}

\* GCC.executable_pattern, ^gcc(-[0-9]+)?(\.exe|\.EXE)?$, over the file
\* names of the hosts
matches_gcc(name) == name \in {"gcc", "gcc-12", "gcc-13", "gcc.exe"}

\* the files of one directory that match, resolved, in iterdir order
RECURSIVE matching(_)
matching(files) ==
    IF files = <<>> THEN <<>>
    ELSE (IF matches_gcc(Head(files).name) THEN <<Head(files).real>> ELSE <<>>)
         \o matching(Tail(files))

\* util.find_executables(GCC.executable_pattern), consumed to its end
RECURSIVE find_executables(_)
find_executables(paths) ==
    IF paths = <<>> THEN <<>>
    ELSE (IF ~Head(paths).exists THEN <<>> ELSE matching(Head(paths).files))
         \o find_executables(Tail(paths))

\* an executable as it is passed to a probe: functools.cache keys on the
\* argument, and a str and a Path of the same text are different keys
Key(t, v) == [t |-> t, v |-> v]

CompilerInfo(executable, version, target) ==
    [executable |-> executable, version |-> version, target |-> target]

\* an external process or PATH scan the process made
Probe(cmd, by, key) == [cmd |-> cmd, by |-> by, key |-> key]

\* the state a probe works on and leaves: its result, the caches, the log
Did(res, c, p) == [res |-> res, cache |-> c, probes |-> p]

NoCache == [discover |-> {}, help |-> {}, version |-> {}, standards |-> {},
            vswhere |-> FALSE, env |-> {}]

\* what cl /help of an executable reports: Version ... for ...
HelpVersion(path) == "19.38 for " \o path

\* MSVC.get_help_text(compiler), @cache; by is the probe that asked
MSVC_get_help_text(key, by, c, p) ==
    IF key \in c.help THEN Did(Ok(key.v), c, p)
    ELSE Did(Ok(key.v), [c EXCEPT !.help = @ \cup {key}],
             Append(p, Probe("cl /help", by, key)))

\* MSVC.get_version(compiler), @cache
MSVC_get_version(key, c, p) ==
    IF \E e \in c.version : e.key = key
    THEN Did(Ok((CHOOSE e \in c.version : e.key = key).val), c, p)
    ELSE LET h == MSVC_get_help_text(key, "version", c, p)
             v == HelpVersion(h.res.val)
         IN  Did(Ok(v), [h.cache EXCEPT !.version = @ \cup {[key |-> key, val |-> v]}],
                 h.probes)

\* MSVC.get_supported_standards(compiler), @cache
MSVC_get_supported_standards(key, c, p) ==
    IF key \in c.standards THEN Did(Ok(key.v), c, p)
    ELSE LET h == MSVC_get_help_text(key, "standards", c, p)
         IN  Did(Ok(key.v), [h.cache EXCEPT !.standards = @ \cup {key}], h.probes)

\* GCC.get_version(compiler), @cache: env = os.environ.copy() raises
\* NameError, gcc.py does not import os; cache stores no raised call
GCC_get_version(key, c, p) == Did(Raise("NameError"), c, p)

\* GCC.get_supported_standards(compiler), @cache: get_standards_raw runs
\* gcc -v --help and then raises NameError at logging.error, gcc.py does not
\* import logging; cache stores no raised call
GCC_get_supported_standards(key, c, p) ==
    Did(Raise("NameError"), c, Append(p, Probe("gcc -v --help", "standards", key)))

get_version(cls, key, c, p) ==
    IF cls = "MSVC" THEN MSVC_get_version(key, c, p) ELSE GCC_get_version(key, c, p)

get_supported_standards(cls, key, c, p) ==
    IF cls = "MSVC" THEN MSVC_get_supported_standards(key, c, p)
    ELSE GCC_get_supported_standards(key, c, p)

\* MSVC.vswhere(), @cache
MSVC_vswhere(c, p) ==
    IF c.vswhere THEN Did(Ok(<<>>), c, p)
    ELSE Did(Ok(<<>>), [c EXCEPT !.vswhere = TRUE],
             Append(p, Probe("vswhere", "discover", Key("", ""))))

\* MSVC.get_env(arch), @cache
MSVC_get_env(arch, c, p) ==
    IF arch \in c.env THEN Did(Ok(<<>>), c, p)
    ELSE LET w == MSVC_vswhere(c, p)
         IN  Did(Ok(<<>>), [w.cache EXCEPT !.env = @ \cup {arch}],
                 Append(w.probes, Probe("VsDevCmd", "discover", Key("", arch))))

\* the loop of MSVC.discover from architecture a on, with the compilers
\* found so far
RECURSIVE msvc_archs(_, _, _, _, _)
msvc_archs(h, a, found, c, p) ==
    IF a > Len(VsArch) THEN Did(Ok(found), c, p)
    ELSE LET e == MSVC_get_env(VsArch[a], c, p)
             compiler == h.cl[VsArch[a]]
         IN  IF compiler = "" THEN msvc_archs(h, a + 1, found, e.cache, e.probes)
             ELSE LET v == MSVC_get_version(Key("str", compiler), e.cache, e.probes)
                  IN  msvc_archs(h, a + 1,
                          Append(found, CompilerInfo(Key("Path", compiler),
                                                     v.res.val, v.res.val)),
                          v.cache, v.probes)

\* the body of MSVC.discover
MSVC_discover(h, c, p) ==
    IF h.system # "Windows" THEN Did(Ok(<<>>), c, p)
    ELSE LET w == MSVC_vswhere(c, p)
         IN  msvc_archs(h, 1, <<>>, w.cache, w.probes)

\* the loop of VersionedCompiler.discover over what find_executables
\* yields, an exception of get_version ending it
RECURSIVE discover_loop(_, _, _, _, _)
discover_loop(cls, executables, found, c, p) ==
    IF executables = <<>> THEN Did(Ok(found), c, p)
    ELSE LET v == get_version(cls, Key("Path", Head(executables)), c, p)
         IN  IF ~v.res.ok THEN v
             ELSE discover_loop(cls, Tail(executables),
                      Append(found, CompilerInfo(Key("Path", Head(executables)),
                                                 v.res.val, v.res.val)),
                      v.cache, v.probes)

\* the body of VersionedCompiler.discover: it scans PATH
VersionedCompiler_discover(cls, h, c, p) ==
    discover_loop(cls, find_executables(h.path), <<>>, c,
                  Append(p, Probe("PATH", "discover", Key("", cls))))

\* cls.discover(), @classmethod @cache: a returned list is stored under cls
discover(cls, h, c, p) ==
    IF \E e \in c.discover : e.cls = cls
    THEN Did(Ok((CHOOSE e \in c.discover : e.cls = cls).val), c, p)
    ELSE LET d == IF cls = "MSVC" THEN MSVC_discover(h, c, p)
                  ELSE VersionedCompiler_discover(cls, h, c, p)
         IN  IF ~d.res.ok THEN d
             ELSE Did(d.res, [d.cache EXCEPT !.discover =
                                 @ \cup {[cls |-> cls, val |-> d.res.val]}],
                      d.probes)

\* VersionedCompiler.__new__.init(binary) and MultilingualCompiler.__init__:
\* self.compiler = executable, self.standards = get_supported_standards(...)
init(cls, key, c, p) ==
    LET s == get_supported_standards(cls, key, c, p)
    IN  IF ~s.res.ok THEN s ELSE Did(Ok(<<key>>), s.cache, s.probes)

\* Collection([init(compiler.executable) for compiler in compilers])
RECURSIVE init_all(_, _, _, _, _)
init_all(cls, compilers, made, c, p) ==
    IF compilers = <<>> THEN Did(Ok(made), c, p)
    ELSE LET i == init(cls, Head(compilers).executable, c, p)
         IN  IF ~i.res.ok THEN i
             ELSE init_all(cls, Tail(compilers), made \o i.res.val, i.cache, i.probes)

\* VersionedCompiler.__new__(cls, executable=executable, language=...): the
\* compilers it built, as the executables they hold
VersionedCompiler_new(cls, executable, h, c, p) ==
    IF executable.t # "" THEN init(cls, executable, c, p)
    ELSE LET d == discover(cls, h, c, p)
         IN  IF ~d.res.ok THEN d
             ELSE init_all(cls, d.res.val, <<>>, d.cache, d.probes)

NoRequest == [op |-> "", cls |-> "", key |-> Key("", ""), ok |-> TRUE, err |-> ""]
Request(op, cls, key, res) ==
    [op |-> op, cls |-> cls, key |-> key, ok |-> res.ok, err |-> res.err]

\* the executables a template or a caller passes: those of the host as str
\* and as Path, and none
Executables(h) ==
    {Key("", "")}
    \cup {Key(t, v) : t \in {"str", "Path"},
                      v \in ({h.cl[a] : a \in {"x86", "amd64"}}
                             \cup Members(find_executables(h.path))) \ {""}}

AllExecutables == UNION {Executables(h) : h \in Hosts}

DiscInit ==
    /\ host \in Hosts
    /\ cache = NoCache
    /\ probes = <<>>
    /\ built = {}
    /\ request = NoRequest
    /\ candidates = <<>>
    /\ infos = <<>>
    /\ nreq = 0

\* cls.discover(), as dump_compilers calls it
Discover(cls) ==
    /\ host.system # "" /\ nreq < MaxRequests
    /\ nreq' = nreq + 1
    /\ LET d == discover(cls, host, cache, probes)
       IN  /\ cache' = d.cache
           /\ probes' = d.probes
           /\ request' = Request("discover", cls, Key("", ""), d.res)
           /\ infos' = IF d.res.ok THEN d.res.val ELSE <<>>
    /\ UNCHANGED <<host, built, candidates>>
    /\ UNCHANGED <<stdVars, chkVars, runVars, parseVars, execVars, diagVars, ordVars, orVars>>

\* cls(language=..., executable=executable): a descriptor is constructed
New(cls, executable) ==
    /\ host.system # "" /\ nreq < MaxRequests
    /\ executable \in Executables(host)
    /\ nreq' = nreq + 1
    /\ LET n == VersionedCompiler_new(cls, executable, host, cache, probes)
       IN  /\ cache' = n.cache
           /\ probes' = n.probes
           /\ request' = Request("new", cls, executable, n.res)
           /\ built' = IF n.res.ok
                       THEN built \cup {[cls |-> cls, compiler |-> k] :
                                           k \in Members(n.res.val)}
                       ELSE built
    /\ UNCHANGED <<host, candidates, infos>>
    /\ UNCHANGED <<stdVars, chkVars, runVars, parseVars, execVars, diagVars, ordVars, orVars>>

\* str(instance): VersionedCompiler.__str__ asks get_version(self.compiler)
Format(instance) ==
    /\ host.system # "" /\ nreq < MaxRequests
    /\ instance \in built
    /\ nreq' = nreq + 1
    /\ LET v == get_version(instance.cls, instance.compiler, cache, probes)
       IN  /\ cache' = v.cache
           /\ probes' = v.probes
           /\ request' = Request("str", instance.cls, instance.compiler, v.res)
    /\ UNCHANGED <<host, built, candidates, infos>>
    /\ UNCHANGED <<stdVars, chkVars, runVars, parseVars, execVars, diagVars, ordVars, orVars>>

\* list(find_executables(GCC.executable_pattern))
FindExecutables ==
    /\ host.system # "" /\ nreq < MaxRequests
    /\ nreq' = nreq + 1
    /\ candidates' = find_executables(host.path)
    /\ request' = Request("find_executables", "GCC", Key("", ""), Ok(<<>>))
    /\ UNCHANGED <<host, cache, probes, built, infos>>
    /\ UNCHANGED <<stdVars, chkVars, runVars, parseVars, execVars, diagVars, ordVars, orVars>>

DiscNext ==
    \/ \E cls \in DiscFamilies : Discover(cls)
    \/ \E cls \in DiscFamilies, executable \in AllExecutables :
          New(cls, executable)
    \/ \E cls \in DiscFamilies, executable \in AllExecutables :
          Format([cls |-> cls, compiler |-> executable])
    \/ FindExecutables

-----------------------------------------------------------------------------
(* compiler.py: Compiler.extract_diagnostics and Compiler.compile, with the *)
(* diagnostic patterns of gcc.py and msvc.py.                               *)

\* the most lines the two streams of a compile hold together
MaxLines == 3

\* the characters of a string
Chars(s) == {SubSeq(s, i, i) : i \in 1..Len(s)}
Digit == Chars("0123456789")
Upper == Chars("ABCDEFGHIJKLMNOPQRSTUVWXYZ")
Lower == Chars("abcdefghijklmnopqrstuvwxyz")

\* whether s goes on with the literal lit from position i
At(s, i, lit) ==
    i + Len(lit) - 1 <= Len(s) /\ SubSeq(s, i, i + Len(lit) - 1) = lit

\* the position after the longest run of characters of class from i on
RECURSIVE Run(_, _, _)
Run(s, i, class) ==
    IF i <= Len(s) /\ SubSeq(s, i, i) \in class THEN Run(s, i + 1, class) ELSE i

\* the position of the first character of s from i on that is in class, 0 if
\* there is none
RECURSIVE Find(_, _, _)
Find(s, i, class) ==
    IF i > Len(s) THEN 0
    ELSE IF SubSeq(s, i, i) \in class THEN i
    ELSE Find(s, i + 1, class)

\* str.splitlines(): the text is cut at \n, \r, \r\n and \f; a terminator at
\* the end of the text opens no further line
RECURSIVE splitlines(_)
splitlines(text) ==
    IF text = "" THEN <<>>
    ELSE LET cut == Find(text, 1, {"\n", "\r", "\f"})
         IN  IF cut = 0 THEN <<text>>
             ELSE LET next == IF At(text, cut, "\r\n") THEN cut + 2 ELSE cut + 1
                  IN  <<SubSeq(text, 1, cut - 1)>>
                      \o splitlines(SubSeq(text, next, Len(text)))

NoMatch == [ok |-> FALSE, level |-> "", message |-> "", error_code |-> NoneV]
Match(level, message, code) ==
    [ok |-> TRUE, level |-> level, message |-> message, error_code |-> code]

\* ((?P<level>error|warning|note): )(?P<message>.*)$ from position i of line
gcc_level(line, i) ==
    LET levels == {l \in {"error", "warning", "note"} : At(line, i, l \o ": ")}
    IN  IF levels = {} THEN NoMatch
        ELSE LET l == CHOOSE l \in levels : TRUE
             IN  Match(l, SubSeq(line, i + Len(l) + 2, Len(line)), NoneV)

\* ((?P<line>[0-9]+):)? and the like from position i: the position after
\* the group, i itself when the group does not match
DigitsColon(line, i) ==
    LET j == Run(line, i, Digit)
    IN  IF j > i /\ At(line, j, ":") THEN j + 1 ELSE i

\* re.match(GCC.diagnostic_pattern, line): the optional prefix
\* path:line:column: with both numbers, with one, with none, and then the
\* pattern without its prefix
gcc_match(line) ==
    LET colon == Find(line, 1, {":"})
        one == DigitsColon(line, colon + 1)
        two == DigitsColon(line, one)
        after(i) == IF colon > 0 /\ At(line, i, " ")
                    THEN gcc_level(line, i + 1) ELSE NoMatch
    IN  IF after(two).ok THEN after(two)
        ELSE IF after(one).ok THEN after(one)
        ELSE IF after(colon + 1).ok THEN after(colon + 1)
        ELSE gcc_level(line, 1)

\* [a-zA-Z0-9:\/\\\._-]
MsvcPathChar == Lower \cup Upper \cup Digit \cup Chars(":/\\._-")

\* re.match(MSVC.diagnostic_pattern, line):
\* path(line): level code: message
msvc_match(line) ==
    LET paren == Run(line, 1, MsvcPathChar)
        digits == Run(line, paren + 1, Digit)
        lvl == digits + 3
        levels == {l \in {"fatal error", "error", "warning"} : At(line, lvl, l \o " ")}
    IN  IF ~(At(line, paren, "(") /\ digits > paren + 1 /\ At(line, digits, "): "))
        THEN NoMatch
        ELSE IF levels = {} THEN NoMatch
        ELSE LET l == CHOOSE l \in levels : TRUE
                 code == lvl + Len(l) + 1
                 number == Run(line, code + 1, Digit)
             IN  IF code <= Len(line)
                    /\ SubSeq(line, code, code) \in Upper
                    /\ number > code + 1 /\ At(line, number, ": ")
                 THEN Match(l, SubSeq(line, number + 2, Len(line)),
                            PyStr(SubSeq(line, code, number - 1)))
                 ELSE NoMatch

\* re.match(self.diagnostic_pattern, line); Clang takes the pattern of GCC
diagnostic_match(family, line) ==
    IF family = "MSVC" THEN msvc_match(line) ELSE gcc_match(line)

\* Level(parts["level"]): the member with that value, ValueError without one
Level(value) == IF value \in Levels THEN Ok(value) ELSE Raise("ValueError")

\* the loop of Compiler.extract_diagnostics over the lines left, yielded
\* holding the pairs yielded so far: a line that does not match is passed
\* over, a line that matches yields one pair, and Level(...) may raise
RECURSIVE extract_lines(_, _, _)
extract_lines(family, lines, yielded) ==
    IF lines = <<>> THEN Ok(yielded)
    ELSE LET m == diagnostic_match(family, Head(lines))
         IN  IF ~m.ok THEN extract_lines(family, Tail(lines), yielded)
             ELSE IF ~Level(m.level).ok THEN Level(m.level)
             ELSE extract_lines(family, Tail(lines),
                                Append(yielded,
                                       [level |-> Level(m.level).val,
                                        diagnostic |-> Diagnostic(m.message, m.error_code)]))

\* Compiler.extract_diagnostics(lines), consumed to its end: the pairs
\* yielded, or the ValueError of Level(...)
extract_diagnostics(family, text) == extract_lines(family, splitlines(text), <<>>)

\* Report.extend(diagnostics)
RECURSIVE Report_extend(_, _)
Report_extend(result, diagnostics) ==
    IF diagnostics = <<>> THEN result
    ELSE Report_extend(extend(result, Head(diagnostics).level,
                              Head(diagnostics).diagnostic),
                       Tail(diagnostics))

\* the two extends of Compiler.compile, taken in the other order
parse_streams_stdout_first(result, err, out) ==
    IF ~out.ok THEN out
    ELSE IF ~err.ok THEN err
    ELSE Ok(Report_extend(Report_extend(result, out.val), err.val))

\* Compiler.compile: result.extend(self.extract_diagnostics(result.stderr)),
\* result.extend(self.extract_diagnostics(result.stdout)), err and out being
\* what the two generators give
parse_streams(result, err, out) ==
    IF ~err.ok THEN err
    ELSE IF ~out.ok THEN out
    ELSE Ok(Report_extend(Report_extend(result, err.val), out.val))

\* the lines compilers print
OutputLines ==
    {"t.c:1:2: error: ab", "t.c:3: error: abc", "note: ab",
     "t.c:1:2: fatal error: ab",
     "t.c(3): error C2118: ab", "t.c(3): fatal error C1001: abc"}

\* lines as a text, each ended by \n
RECURSIVE Joined(_)
Joined(lines) ==
    IF lines = <<>> THEN "" ELSE Head(lines) \o "\n" \o Joined(Tail(lines))

\* stdout and stderr of a process: up to MaxLines lines dealt to the two
\* streams, and streams with other line ends
Streams ==
    UNION {{[stdout |-> Joined(SubSeq(l, 1, k)),
             stderr |-> Joined(SubSeq(l, k + 1, Len(l)))] : k \in 0..Len(l)} :
           l \in SeqsUpTo(OutputLines, MaxLines)}
    \cup {[stdout |-> "note: ab\r\n\r\nt.c:3: error: abc", stderr |-> "warning: ab\fab\n"],
          [stdout |-> "", stderr |-> "t.c:1:2: error: ab\rnote: ab"]}

PatternFamilies == {"GCC", "MSVC"}

NoCompile == [family |-> "", stdout |-> "", stderr |-> "", raised |-> "",
              result |-> NewReport(0)]

DiagInit ==
    /\ compiled = NoCompile
    /\ pcCompile = "ready"

\* Compiler.compile(file, args) of an instance of family: the process ends
\* with returncode, stdout and stderr, and the Report is returned
Compile ==
    /\ pcCompile = "ready"
    /\ \E family \in PatternFamilies, returncode \in {0, 1}, process \in Streams :
       \E err \in {extract_diagnostics(family, process.stderr)},
          out \in {extract_diagnostics(family, process.stdout)} :
       \E r \in {parse_streams(NewReport(returncode), err, out)} :
          /\ compiled' = [family |-> family, stdout |-> process.stdout,
                          stderr |-> process.stderr, raised |-> r.err,
                          result |-> IF r.ok THEN r.val
                                     ELSE NewReport(returncode)]
          /\ pcCompile' = IF r.ok THEN "compiled" ELSE "raised"
    /\ UNCHANGED <<stdVars, chkVars, runVars, parseVars, execVars, discVars,
                   ordVars, orVars>>

DiagNext == Compile

-----------------------------------------------------------------------------
(* gcc.py: GCC.get_supported_standards, the standards of one gcc by         *)
(* language, those of the last century first.                               *)

\* whether name holds the literal lit
Contains(name, lit) == \E i \in 1..Len(name) : At(name, i, lit)

\* the key get_supported_standards files an alias group under
language_of(standard) ==
    LET is_gnu == \E i \in 1..Len(standard) : At(standard[i], 1, "gnu")
        is_cpp == \E i \in 1..Len(standard) : Contains(standard[i], "++")
    IN  (IF is_gnu THEN "gnu" ELSE "c") \o (IF is_cpp THEN "++" ELSE "")

Dialects == {"c", "gnu", "c++", "gnu++"}

\* result after the first loop: the groups of every language in the order
\* of raw
by_language(raw) ==
    [language \in Dialects |->
        SelectSeq(raw, LAMBDA standard : language_of(standard) = language)]

\* next(idx for idx, standard in enumerate(standards) if Test(standard)),
\* counted from 1; 0 stands for StopIteration
first_index(standards, Which(_)) ==
    IF \E i \in 1..Len(standards) : Which(standards[i])
    THEN CHOOSE i \in 1..Len(standards) :
            /\ Which(standards[i])
            /\ \A j \in 1..(i - 1) : ~Which(standards[j])
    ELSE 0

\* name in standard, for a tuple of names
has_name(standard, name) == \E i \in 1..Len(standard) : standard[i] = name

\* the body of the loop over 'c' and 'gnu' for a list that is not empty:
\* the list from the first group whose first name holds a 9 on, iso9899:199409
\* and c99 swapped for 'c', then the groups before it
reorder(language, standards) ==
    LET nine(standard) == Contains(standard[1], "9")
        iso94(standard) == has_name(standard, "iso9899:199409")
        c99(standard) == has_name(standard, "c99")
        idx == first_index(standards, nine)
        last_century == SubSeq(standards, idx, Len(standards))
        index_iso94 == first_index(last_century, iso94)
        index_c99 == first_index(last_century, c99)
    IN  IF idx = 0 THEN Raise("StopIteration")
        ELSE IF language # "c" \/ index_iso94 = 0 \/ index_c99 = 0
        THEN Ok(last_century \o SubSeq(standards, 1, idx - 1))
        ELSE IF ~(index_iso94 > index_c99) THEN Raise("AssertionError")
        ELSE Ok([last_century EXCEPT ![index_c99] = last_century[index_iso94],
                                     ![index_iso94] = last_century[index_c99]]
                \o SubSeq(standards, 1, idx - 1))

\* GCC.get_supported_standards from the return of get_standards_raw on
reordered(raw) ==
    LET result == by_language(raw)
        c == IF result["c"] = <<>> THEN Ok(<<>>) ELSE reorder("c", result["c"])
        gnu == IF result["gnu"] = <<>> THEN Ok(<<>>) ELSE reorder("gnu", result["gnu"])
    IN  IF ~c.ok THEN c
        ELSE IF ~gnu.ok THEN gnu
        ELSE Ok([result EXCEPT !["c"] = c.val, !["gnu"] = gnu.val])

\* GCC.get_standards_raw(compiler) for a gcc whose help text lists groups:
\* after gcc -v --help has run, logging.error(result.stdout) raises NameError,
\* gcc.py does not import logging
get_standards_raw(groups) == Raise("NameError")

\* GCC.get_supported_standards(compiler)
standards_by_language(groups) ==
    LET raw == get_standards_raw(groups)
    IN  IF ~raw.ok THEN raw ELSE reordered(raw.val)

\* alias groups of the help text of a gcc, the name the others are the same
\* as first
C90 == <<"c90", "c89", "iso9899:1990">>
ISO94 == <<"iso9899:199409">>
C99 == <<"c99", "c9x", "iso9899:1999">>
C11 == <<"c11", "c1x", "iso9899:2011">>
GNU99 == <<"gnu99", "gnu9x">>
GNU11 == <<"gnu11", "gnu1x">>
CPP98 == <<"c++98", "c++03">>
HelpGroups == {C90, ISO94, C99, C11, GNU99, GNU11, CPP98}

\* the help texts: up to MaxGroups groups, none twice
Listings ==
    {l \in SeqsUpTo(HelpGroups, MaxGroups) :
        \A i, j \in 1..Len(l) : l[i] = l[j] => i = j}

OrdInit ==
    /\ listing = <<>>
    /\ supported = Ok(<<>>)
    /\ pcStandards = "ready"

\* GCC.get_supported_standards(compiler), called for a gcc not asked before
SupportedStandards ==
    /\ pcStandards = "ready"
    /\ \E groups \in Listings :
          /\ listing' = groups
          /\ supported' = standards_by_language(groups)
          /\ pcStandards' = IF standards_by_language(groups).ok
                            THEN "returned" ELSE "raised"
    /\ UNCHANGED <<stdVars, chkVars, runVars, parseVars, execVars, discVars,
                   diagVars, orVars>>

OrdNext == SupportedStandards

-----------------------------------------------------------------------------
(* compiler.py: toolchains and the | operator.  A toolchain is a Compiler   *)
(* or a Collection; a Collection is an object, its list changes in place.   *)

\* the most | one source file evaluates
MaxOrs == 2

\* a Compiler instance
Single(compiler) == [kind |-> "Compiler", name |-> compiler, at |-> 0]
\* the Collection at position i of the heap
Ref(i) == [kind |-> "Collection", name |-> "", at |-> i]

NoToolchain == [kind |-> "", name |-> "", at |-> 0]

\* the compilers a toolchain stands for in heap h
denotes(h, toolchain) ==
    IF toolchain.kind = "Compiler" THEN <<toolchain.name>> ELSE h[toolchain.at]

\* the heap after a | and what the | returned
Ored(h, result) == [heap |-> h, result |-> result]

\* Collection.__or__(self, other)
Collection_or(h, this, other) ==
    IF other.kind = "Collection"
    THEN Ored([h EXCEPT ![this.at] = @ \o h[other.at]], this)
    ELSE Ored([h EXCEPT ![this.at] = Append(@, other.name)], this)

\* Compiler.__or__(self, other)
Compiler_or(h, this, other) ==
    IF other.kind = "Collection"
    THEN Ored([h EXCEPT ![other.at] = Append(@, this.name)], other)
    ELSE Ored(Append(h, <<this.name, other.name>>), Ref(Len(h) + 1))

\* a | b: type(a).__or__(a, b)
or(h, a, b) ==
    IF a.kind = "Collection" THEN Collection_or(h, a, b) ELSE Compiler_or(h, a, b)

\* the instances built with an executable, and what discovery gives for a
\* family: its instances as one Collection
Singles == {"cl x64", "cl x86"}
Discovered == {<<>>, <<"cl x64">>, <<"cl x64", "cl x86">>}

\* the toolchains a file can name
Toolchains(h) == {Single(c) : c \in Singles} \cup {Ref(i) : i \in 1..Len(h)}
AllToolchains == {Single(c) : c \in Singles} \cup {Ref(i) : i \in 1..(2 + MaxOrs + 1)}

NoOr == [left |-> NoToolchain, right |-> NoToolchain, result |-> NoToolchain,
         before |-> <<>>]

OrInit ==
    /\ heap \in {<<a, b>> : a \in Discovered, b \in Discovered}
    /\ combined = NoOr
    /\ keyed = NoToolchain
    /\ nor = 0

\* the expression a | b of a directive
Or ==
    /\ nor \in 0..(MaxOrs - 1)
    /\ \E a \in AllToolchains, b \in AllToolchains :
          /\ a \in Toolchains(heap)
          /\ b \in Toolchains(heap)
          /\ heap' = or(heap, a, b).heap
          /\ combined' = [left |-> a, right |-> b,
                          result |-> or(heap, a, b).result, before |-> heap]
    /\ nor' = nor + 1
    /\ UNCHANGED keyed
    /\ UNCHANGED <<stdVars, chkVars, runVars, parseVars, execVars, discVars,
                   diagVars, ordVars>>

\* Test.add_assertion(compiler, assertion): the assertion is filed under
\* the toolchain object
AddAssertion ==
    /\ nor >= 0
    /\ \E compiler \in AllToolchains :
          /\ compiler \in Toolchains(heap)
          /\ keyed' = compiler
    /\ UNCHANGED <<heap, combined, nor>>
    /\ UNCHANGED <<stdVars, chkVars, runVars, parseVars, execVars, discVars,
                   diagVars, ordVars>>

OrNext ==
    \/ Or
    \/ AddAssertion

-----------------------------------------------------------------------------
(* The specifications: each runs one part and leaves the others at rest.    *)

StdIdle ==
    /\ self = [language |-> "", standards |-> <<>>, selected_standards |-> <<>>]
    /\ std = NoneV
    /\ call = NoCall
    /\ pcStd = "idle"

ChkIdle ==
    /\ report = NewReport(0)
    /\ assertion = NoAssertion
    /\ outcome = FALSE
    /\ pcChk = "idle"

RunIdle ==
    /\ nfiles = 0
    /\ fileIdx = 0
    /\ ntests = 0
    /\ testIdx = 0
    /\ test = NoTest
    /\ results = <<>>
    /\ todo = <<>>
    /\ evaluated = <<>>
    /\ skips = <<>>
    /\ failed = FALSE
    /\ returned = ""
    /\ allPassed = TRUE
    /\ exitCode = -1
    /\ pcRun = "idle"

ParseIdle ==
    /\ tests = <<>>
    /\ directive = Directive("", NoCompiler, NoneV, NoneV, NoneV)
    /\ raised = ""
    /\ pcParse = "idle"

ExecIdle ==
    /\ gen = NoGen
    /\ invocations = <<>>
    /\ yields = <<>>
    /\ nexec = 0
    /\ pcExec = "idle"

DiscIdle ==
    /\ host = Host("", <<>>, NoCl)
    /\ cache = NoCache
    /\ probes = <<>>
    /\ built = {}
    /\ request = NoRequest
    /\ candidates = <<>>
    /\ infos = <<>>
    /\ nreq = 0

DiagIdle ==
    /\ compiled = NoCompile
    /\ pcCompile = "idle"

OrdIdle ==
    /\ listing = <<>>
    /\ supported = Ok(<<>>)
    /\ pcStandards = "idle"

OrIdle ==
    /\ heap = <<>>
    /\ combined = NoOr
    /\ keyed = NoToolchain
    /\ nor = -1

InitStd == StdInit /\ ChkIdle /\ RunIdle /\ ParseIdle /\ ExecIdle /\ DiscIdle /\ DiagIdle /\ OrdIdle /\ OrIdle
NextStd == StdNext
SpecStd == InitStd /\ [][NextStd]_vars

InitChk == ChkInit /\ StdIdle /\ RunIdle /\ ParseIdle /\ ExecIdle /\ DiscIdle /\ DiagIdle /\ OrdIdle /\ OrIdle
NextChk == ChkNext
SpecChk == InitChk /\ [][NextChk]_vars

InitRun == RunInit /\ StdIdle /\ ChkIdle /\ ParseIdle /\ ExecIdle /\ DiscIdle /\ DiagIdle /\ OrdIdle /\ OrIdle
NextRun == RunNext
SpecRun == InitRun /\ [][NextRun]_vars

InitParse == ParseInit /\ StdIdle /\ ChkIdle /\ RunIdle /\ ExecIdle /\ DiscIdle /\ DiagIdle /\ OrdIdle /\ OrIdle
NextParse == ParseNext
SpecParse == InitParse /\ [][NextParse]_vars

InitExec == ExecInit /\ StdIdle /\ ChkIdle /\ RunIdle /\ ParseIdle /\ DiscIdle /\ DiagIdle /\ OrdIdle /\ OrIdle
NextExec == ExecNext
SpecExec == InitExec /\ [][NextExec]_vars

InitDisc == DiscInit /\ StdIdle /\ ChkIdle /\ RunIdle /\ ParseIdle /\ ExecIdle /\ DiagIdle /\ OrdIdle /\ OrIdle
NextDisc == DiscNext
SpecDisc == InitDisc /\ [][NextDisc]_vars

InitDiag == DiagInit /\ StdIdle /\ ChkIdle /\ RunIdle /\ ParseIdle /\ ExecIdle
              /\ DiscIdle /\ OrdIdle /\ OrIdle
NextDiag == DiagNext
SpecDiag == InitDiag /\ [][NextDiag]_vars

InitOrder == OrdInit /\ StdIdle /\ ChkIdle /\ RunIdle /\ ParseIdle /\ ExecIdle
               /\ DiscIdle /\ DiagIdle /\ OrIdle
NextOrder == OrdNext
SpecOrder == InitOrder /\ [][NextOrder]_vars

InitOr == OrInit /\ StdIdle /\ ChkIdle /\ RunIdle /\ ParseIdle /\ ExecIdle
            /\ DiscIdle /\ DiagIdle /\ OrdIdle
NextOr == OrNext
SpecOr == InitOr /\ [][NextOr]_vars

-----------------------------------------------------------------------------
(* Claims about the standard-selection algebra (SpecStd).                   *)

\* the dialect's ordered alias-group list of the instance
Groups == IF self.language \in DOMAIN self.standards
          THEN self.standards[self.language] ELSE <<>>

\* every alias of every group
AllNames == UNION {Members(Groups[i]) : i \in 1..Len(Groups)}

\* the canonical names of groups a..b (1-based, inclusive)
Canon(a, b) == [k \in 1..(IF b >= a THEN b - a + 1 ELSE 0) |-> Groups[a + k - 1][1]]

\* the name a str term stands for: itself if an alias, else dialect + term
NameOf(n) == IF n \in AllNames THEN n ELSE self.language \o n

\* the 1-based indices of the groups that hold the name of term n
GroupsOf(n) == {i \in 1..Len(Groups) : NameOf(n) \in Members(Groups[i])}

\* C7: an open comparison on a term whose name is in the group at index i
\* yields the canonical names, in descriptor order, of the groups after i
\* (">N"), from i on (">=N"), before i ("<N"), up to and including i ("<=N").
C7_OpenComparison ==
    (call.op = "__init__" /\ call.arg.t = "str") =>
        \A n \in StrTerms : \A i \in GroupsOf(n) :
            /\ call.arg.v = ">" \o n =>
                  call.result.ok /\ call.result.val = Canon(i + 1, Len(Groups))
            /\ call.arg.v = ">=" \o n =>
                  call.result.ok /\ call.result.val = Canon(i, Len(Groups))
            /\ call.arg.v = "<" \o n =>
                  call.result.ok /\ call.result.val = Canon(1, i - 1)
            /\ call.arg.v = "<=" \o n =>
                  call.result.ok /\ call.result.val = Canon(1, i)

\* C7 witness: "<=17" on (c++11, c++14, c++17, c++20) selected the first three
C7_Witness ==
    /\ call.op = "__init__" /\ call.arg.t = "str" /\ call.arg.v = "<=17"
    /\ Len(Groups) = 4
    /\ self.selected_standards = <<"c++11", "c++14", "c++17">>

\* the canonical names of the groups within both bounds, in descriptor order
Between(lo, i, hi, j) ==
    LET first == IF lo = ">" THEN i + 1 ELSE i
        last == IF hi = "<" THEN j - 1 ELSE j
    IN  Canon(first, last)

\* C8: a closed range whose lower group does not come after its
\* upper group yields exactly the canonical names of the groups within both
\* bounds, in descriptor order, without duplicates.
C8_ClosedRangeClaimed ==
    (call.op = "__init__" /\ call.arg.t = "tuple" /\ Len(call.arg.v) = 2) =>
        \A lo \in {">", ">="}, hi \in {"<", "<="} :
        \A a \in RangeTerms, b \in RangeTerms :
        \A i \in GroupsOf(a), j \in GroupsOf(b) :
            (call.arg.v = <<lo \o a, hi \o b>> /\ i <= j) =>
                /\ call.result.ok
                /\ call.result.val = Between(lo, i, hi, j)

\* what get_standards does with such a range: the lower bound is applied
\* first, and the upper bound is then looked up in what is left, so an
\* exclusive lower bound on the upper bound's own group raises RuntimeError;
\* every other such range yields the groups within both bounds, and
\* (">=17", "<23") over ..., c++14, c++17, c++20, c++23 yields [c++17, c++20].
ClosedRangeAsBuilt ==
    (call.op = "__init__" /\ call.arg.t = "tuple" /\ Len(call.arg.v) = 2) =>
        \A lo \in {">", ">="}, hi \in {"<", "<="} :
        \A a \in RangeTerms, b \in RangeTerms :
        \A i \in GroupsOf(a), j \in GroupsOf(b) :
            (call.arg.v = <<lo \o a, hi \o b>> /\ i <= j) =>
                IF lo = ">" /\ i = j
                THEN ~call.result.ok /\ call.result.err = "RuntimeError"
                ELSE /\ call.result.ok
                     /\ call.result.val = Between(lo, i, hi, j)
                     /\ \A x, y \in 1..Len(call.result.val) :
                           call.result.val[x] = call.result.val[y] => x = y
                     /\ (call.arg.v = <<">=17", "<23">> /\ i + 2 = j) =>
                           call.result.val = <<"c++17", "c++20">>

\* the decimal name of an int term
Decimal(n) == CASE n = 14 -> "14" [] n = 17 -> "17" [] n = 20 -> "20"

\* C9: expand_standard returns a str term unchanged when it is an alias of
\* some group; otherwise the dialect key followed by the term when that is an
\* alias; otherwise it raises (and a query of that single term builds no
\* list).  Every name it returns is an alias of some group.
C9_Expansion ==
    /\ call.op = "expand_standard" =>
          LET term == call.arg
              prefixed == self.language \o
                             (IF term.t = "int" THEN Decimal(term.v) ELSE term.v)
          IN  /\ IF term.t = "str" /\ term.v \in AllNames
                 THEN call.result.ok /\ call.result.val = term.v
                 ELSE IF prefixed \in AllNames
                 THEN call.result.ok /\ call.result.val = prefixed
                 ELSE ~call.result.ok /\ call.result.err = "RuntimeError"
              /\ call.result.ok => call.result.val \in AllNames
    /\ (call.op = "__init__" /\ call.arg.t \in {"int", "str"}
        /\ self.language \in DOMAIN self.standards) =>
          LET term == call.arg
              prefixed == self.language \o
                             (IF term.t = "int" THEN Decimal(term.v) ELSE term.v)
          IN  (~(term.t = "str" /\ startswith_cmp(term.v))
               /\ ~(term.t = "str" /\ term.v \in AllNames)
               /\ prefixed \notin AllNames) =>
                  /\ pcStd = "raised"
                  /\ ~call.result.ok
                  /\ self.selected_standards = <<>>

\* C9 witness: the int 17 under c++ became c++17
C9_Witness ==
    /\ call.op = "expand_standard"
    /\ call.arg.t = "int" /\ call.arg.v = 17
    /\ call.result.ok /\ call.result.val = "c++17"

\* C10: a list query of the selected list L of an instance built from any
\* query yields L again, and a clone made without std selects what the
\* original selected.
C10_Idempotence ==
    /\ [](call.op = "get_standards" =>
             call.result.ok /\ call.result.val = self.selected_standards)
    /\ [][(pcStd = "ready" /\ call'.op = "__call__" /\ call'.arg.t = "None") =>
             (pcStd' = "cloned" /\ call'.result.ok
              /\ self'.selected_standards = self.selected_standards)]_vars

\* C10 witness: the instance built from (">=17", "<=20") was cloned without std
C10_Witness ==
    /\ pcStd = "cloned"
    /\ std.t = "tuple" /\ std.v = <<">=17", "<=20">>
    /\ call.op = "__call__" /\ call.arg.t = "None"
    /\ self.selected_standards = <<"c++17", "c++20">>

-----------------------------------------------------------------------------
(* Claims about the assertion model (SpecChk).                              *)

\* the pattern without its leading "^"
RECURSIVE Unanchored(_)
Unanchored(pattern) ==
    IF pattern # "" /\ Head(pattern) = "^" THEN Unanchored(Tail(pattern)) ELSE pattern

\* the pattern's characters, each a literal or ".", equal those of the
\* message's prefix of the same length
MatchesPrefix(pattern, message) ==
    LET core == Unanchored(pattern)
    IN  /\ Len(core) <= Len(message)
        /\ \A k \in 1..Len(core) :
              SubSeq(core, k, k) \in {".", SubSeq(message, k, k)}

\* the diagnostic satisfies the matcher of the Message assertion
Satisfies(a, d) ==
    IF a.regex THEN MatchesPrefix(a.text.v, d.message)
    ELSE a.text.t = "str" /\ d.message = a.text.v

\* C4: a Message assertion of severity s passes on a report iff some
\* diagnostic of the report's bucket for s satisfies its matcher: equality
\* with the text, or a regex match of a prefix of the message.
C4_MessageCheck ==
    (pcChk = "checked" /\ assertion.kind = "Message") =>
        (outcome <=>
            \E i \in 1..Len(report.diagnostics[assertion.level]) :
                Satisfies(assertion, report.diagnostics[assertion.level][i]))

\* C4 witness: an error assertion for the text "abc" failed on a report whose
\* warning bucket holds "abc" and whose error bucket holds "ab"
C4_Witness ==
    /\ pcChk = "checked" /\ assertion.kind = "Message"
    /\ assertion.level = "error" /\ ~outcome
    /\ assertion.text = PyStr("abc") /\ ~assertion.regex
    /\ Len(report.diagnostics["warning"]) = 1
    /\ report.diagnostics["warning"][1].message = "abc"
    /\ Len(report.diagnostics["error"]) = 1
    /\ report.diagnostics["error"][1].message = "ab"

\* C5: an ErrorCode assertion passes on a report iff some diagnostic of any
\* bucket carries an error code equal to the expected one; a diagnostic
\* without an error code never satisfies it.
C5_ErrorCodeCheck ==
    (pcChk = "checked" /\ assertion.kind = "ErrorCode") =>
        (outcome <=>
            \E l \in Levels : \E i \in 1..Len(report.diagnostics[l]) :
                /\ report.diagnostics[l][i].error_code # NoneV
                /\ report.diagnostics[l][i].error_code = assertion.expected)

\* C5 witness: the only diagnostic with the code is a warning beside an
\* error without a code, and the assertion passed
C5_Witness ==
    /\ pcChk = "checked" /\ assertion.kind = "ErrorCode" /\ outcome
    /\ Len(report.diagnostics["warning"]) = 1
    /\ report.diagnostics["warning"][1].error_code = PyStr("C2118")
    /\ Len(report.diagnostics["error"]) = 1
    /\ report.diagnostics["error"][1].error_code = NoneV

-----------------------------------------------------------------------------
(* Claims about the runner (SpecRun).                                       *)

Owed ==
    UNION {{e} \X (1..Len(test.assertions[e].assertions)) \X (1..Len(results[e])) :
              e \in {i \in 1..Len(test.assertions) :
                        available(test.assertions[i].compiler)}}

\* bound order: by compiler, then by assertion, then by Report
Before(x, y) ==
    \/ x.compiler < y.compiler
    \/ x.compiler = y.compiler /\ x.assertion < y.assertion
    \/ x.compiler = y.compiler /\ x.assertion = y.assertion /\ x.result < y.result

C3_RunsOnClaimed ==
    pcRun = "exited" => (fileIdx = nfiles /\ testIdx = ntests)

-----------------------------------------------------------------------------
(* Claims about the directives (SpecParse).                                 *)

SeverityDirectives == {"note", "warning", "error", "fatal_error"}

\* C6: a severity directive called with both text and regex, or
\* with neither, raises UsageError and binds no assertion.
C6_UsageErrorClaimed ==
    [][(/\ directive'.name \in SeverityDirectives
        /\ (directive'.text = NoneV <=> directive'.regex = NoneV)
        /\ tests # <<>>)
       => (raised' = "UsageError" /\ tests' = tests)]_vars

-----------------------------------------------------------------------------
(* Claims about the selected list of an instance (SpecStd).                 *)

\* the 1-based index of the first group that holds name s, 0 if none does
GroupIndex(s) ==
    LET found == {i \in 1..Len(Groups) : s \in Members(Groups[i])}
    IN  IF found = {} THEN 0 ELSE CHOOSE i \in found : \A j \in found : i <= j

\* C11: the selected list of every instance built from an accepted query is
\* non-empty, without duplicates, holds only names of the dialect's groups,
\* and lists them in the descriptor's order.
C11_SelectedInvariant ==
    (pcStd = "ready" /\ call.op = "__init__") =>
        LET sel == self.selected_standards
        IN  /\ sel # <<>>
            /\ \A x, y \in 1..Len(sel) : sel[x] = sel[y] => x = y
            /\ \A x \in 1..Len(sel) : sel[x] \in AllNames
            /\ \A x, y \in 1..Len(sel) :
                  x < y => GroupIndex(sel[x]) < GroupIndex(sel[y])

\* what holds of the selected list as built: its names are names of the
\* dialect's groups and no name occurs twice
SelectedAsBuilt ==
    (pcStd = "ready" /\ call.op = "__init__") =>
        LET sel == self.selected_standards
        IN  /\ \A x, y \in 1..Len(sel) : sel[x] = sel[y] => x = y
            /\ \A x \in 1..Len(sel) : sel[x] \in AllNames

\* the instance was built with an empty selected list from an open comparison
SelectedEmpty ==
    /\ pcStd = "ready" /\ call.op = "__init__" /\ call.arg.t = "str"
    /\ self.selected_standards = <<>>

\* the instance was built from a list query with its names against the
\* descriptor's order
SelectedUnordered ==
    /\ pcStd = "ready" /\ call.op = "__init__" /\ call.arg.t = "list"
    /\ self.selected_standards = <<"c++20", "c++17">>

\* the instance was built from a list query with two aliases of one group
SelectedAliases ==
    /\ pcStd = "ready" /\ call.op = "__init__" /\ call.arg.t = "list"
    /\ self.selected_standards = <<"c++17", "c++1z">>

-----------------------------------------------------------------------------
(* Claims about the compiles of a test (SpecExec).                          *)

\* the command the matrix has for one instance, one standard and one test
MatrixCommand(inst, standard, test_id) ==
    <<inst.compiler>>
    \o <<(IF inst.family = "MSVC" THEN "/std:" ELSE "-std=") \o standard>>
    \o inst.options
    \o <<(IF inst.family = "MSVC" THEN "/D" ELSE "-D") \o test_id>>
    \o <<SourceFile>>

\* the commands of the matrix for a toolchain and a test: one per selected
\* standard of each of its instances, in order
RECURSIVE Matrix(_, _)
Matrix(data, test_id) ==
    IF data = <<>> THEN <<>>
    ELSE [k \in 1..Len(Head(data).selected_standards) |->
             MatrixCommand(Head(data), Head(data).selected_standards[k], test_id)]
         \o Matrix(Tail(data), test_id)

\* the commands of the last k invocations
LastCommands(k) ==
    [i \in 1..k |-> invocations[Len(invocations) - k + i].command]

\* the execute call being consumed has returned all it yields
Returned == pcExec = "ready" /\ nexec > 0

\* C12: execute of an available toolchain of any family (GCC, Clang, MSVC)
\* ends without an error, having run exactly the commands of the matrix, in
\* order, and having yielded one report per command.
C12_CompileMatrix ==
    (nexec > 0 /\ available(gen.toolchain)) =>
        /\ pcExec # "raised"
        /\ Returned =>
              LET expected == Matrix(gen.toolchain.data, gen.test_id)
              IN  /\ Len(yields) = Len(expected)
                  /\ \A k \in 1..Len(yields) : yields[k].command = expected[k]
                  /\ Len(invocations) >= Len(expected)
                  /\ LastCommands(Len(expected)) = expected

\* an instance at which execute raises: Clang inherits Compiler.execute, and
\* GCC.execute raises when it formats the name of its first report
Fails(inst) ==
    \/ inst.family = "Clang"
    \/ inst.family = "GCC" /\ inst.selected_standards # <<>>

\* what execute does as built: it raises when the generator reaches the
\* first instance that is Clang or a GCC with a standard to compile, and
\* runs the matrix for a toolchain that has no such instance
ExecuteAsBuilt ==
    nexec > 0 =>
        LET data == gen.toolchain.data
            failing == {i \in 1..Len(data) : Fails(data[i])}
        IN  /\ pcExec = "raised" => (gen.ci \in failing /\ \A i \in failing : gen.ci <= i)
            /\ Returned =>
                  /\ failing = {}
                  /\ [k \in 1..Len(yields) |-> yields[k].command]
                        = Matrix(data, gen.test_id)
                  /\ Len(invocations) >= Len(yields)
                  /\ LastCommands(Len(yields)) = Matrix(data, gen.test_id)

\* a Collection of two MSVC instances was compiled for the test "a b": three
\* commands
MatrixCompiled ==
    /\ Returned /\ gen.test = "a b"
    /\ Len(gen.toolchain.data) = 2 /\ gen.toolchain.data[2].family = "MSVC"
    /\ Len(yields) = 3
    /\ yields[3].command = <<"cl.exe", "/std:c++17", "/DA_B", "t.cpp">>

\* a GCC instance raised before its first compile
NothingCompiledByGCC ==
    /\ pcExec = "raised" /\ nexec = 1
    /\ gen.toolchain.data[gen.ci].family = "GCC"
    /\ invocations = <<>>

\* whether a command defines the identifier id
Defines(command, id) ==
    \E j \in 1..Len(command) : command[j] \in {"-D" \o id, "/D" \o id}

\* the names of the tests of the file that were compiled
Compiled == {invocations[k].test : k \in 1..Len(invocations)}

\* C13: every command run for a test defines the identifier of that test,
\* and the identifier no other test of the file is gated by.
C13_TestIsolation ==
    \A k \in 1..Len(invocations) :
        /\ Defines(invocations[k].command, identifier(invocations[k].test))
        /\ \A other \in Compiled \ {invocations[k].test} :
              ~Defines(invocations[k].command, identifier(other))

\* what the commands hold as built: each defines the identifier of its test
\* and no other name
DefinesOwnIdentifier ==
    \A k \in 1..Len(invocations) :
        \A j \in 1..Len(invocations[k].command) :
            LET arg == invocations[k].command[j]
            IN  (Len(arg) > 2 /\ SubSeq(arg, 1, 2) \in {"-D", "/D"}) =>
                    /\ SubSeq(arg, 3, Len(arg)) = identifier(invocations[k].test)
                    /\ j = Len(invocations[k].command) - 1

\* the tests "a" and "a b" were both compiled, each command with its own
\* identifier only
IsolatedTests ==
    /\ Compiled = {"a", "a b"}
    /\ Defines(invocations[1].command, "A")
    /\ ~Defines(invocations[1].command, "A_B")

-----------------------------------------------------------------------------
(* Claims about the binding of assertions (SpecParse).                      *)

AssertionDirectives == SeverityDirectives \cup {"return_code", "error_code"}

\* the toolchains the directives are called with
ParseToolchains == {gcc, msvc, clang, gccX, gccY}

\* the assertion a directive called as d makes
AssertionOf(d) ==
    CASE d.name = "return_code" -> ReturnCode(d.code.v)
      [] d.name = "error_code" -> ErrorCode(d.code)
      [] d.name = "fatal_error" -> Message("fatal error", d.text, d.regex)
      [] OTHER -> Message(d.name, d.text, d.regex)

\* the assertions of a test under the toolchain object c, in the order they
\* are reported: the lists of the entries keyed by c, in the order of the
\* dict's items
RECURSIVE BoundTo(_, _)
BoundTo(assertions, c) ==
    IF assertions = <<>> THEN <<>>
    ELSE (IF Head(assertions).compiler.id = c.id
          THEN Head(assertions).assertions ELSE <<>>)
         \o BoundTo(Tail(assertions), c)

\* C14: an assertion directive appends its assertion to the list of the
\* most recent test under the toolchain passed to it, after the assertions
\* bound there before, and changes no other list and no other test; a test
\* directive changes no earlier test.
C14_AssertionBinding ==
    [][/\ (directive'.name \in AssertionDirectives /\ tests # <<>>) =>
             /\ Len(tests') = Len(tests)
             /\ \A i \in 1..(Len(tests) - 1) : tests'[i] = tests[i]
             /\ \A c \in ParseToolchains :
                   BoundTo(tests'[Len(tests)].assertions, c) =
                      IF c.id = directive'.compiler.id
                      THEN Append(BoundTo(tests[Len(tests)].assertions, c),
                                  AssertionOf(directive'))
                      ELSE BoundTo(tests[Len(tests)].assertions, c)
       /\ directive'.name = "test" =>
             /\ Len(tests') = Len(tests) + 1
             /\ \A i \in 1..Len(tests) : tests'[i] = tests[i]]_vars

\* what binding does as built: the assertion goes to the most recent test
\* and to no other, into one list, at its end; that list is keyed by the
\* toolchain passed or by a Collection equal to it
BindingAsBuilt ==
    [][(directive'.name \in AssertionDirectives /\ tests # <<>>) =>
          /\ Len(tests') = Len(tests)
          /\ \A i \in 1..(Len(tests) - 1) : tests'[i] = tests[i]
          /\ LET old == tests[Len(tests)].assertions
                 new == tests'[Len(tests)].assertions
             IN  \/ /\ new = Append(old, [compiler |-> directive'.compiler,
                                          assertions |-> <<AssertionOf(directive')>>])
                 \/ \E k \in 1..Len(old) :
                       /\ KeyEq(old[k].compiler, directive'.compiler)
                       /\ new = [old EXCEPT ![k].assertions =
                                    Append(@, AssertionOf(directive'))]]_vars

\* an assertion passed with clang is listed under msvc
BoundUnderOther ==
    /\ tests # <<>>
    /\ directive.name = "error_code" /\ directive.compiler.id = "clang"
    /\ BoundTo(tests[Len(tests)].assertions, clang) = <<>>
    /\ Len(BoundTo(tests[Len(tests)].assertions, msvc)) = 2

\* two assertions passed with gcc are in two entries of the dict
SplitKey ==
    /\ Len(tests) = 1 /\ Len(tests[1].assertions) = 2
    /\ tests[1].assertions[1].compiler = gcc
    /\ tests[1].assertions[2].compiler = gcc

-----------------------------------------------------------------------------
(* Claims about test identifiers (SpecParse).                               *)

\* C15: no two tests registered for a file have the same identifier.
C15_UniqueIdentifiers ==
    \A i, j \in 1..Len(tests) :
        tests[i].identifier = tests[j].identifier => i = j

\* what Parser.test does as built: each test holds the identifier of its
\* own name, and tests with different identifiers have different names
IdentifierOfName ==
    \A i \in 1..Len(tests) : tests[i].identifier = identifier(tests[i].name)

\* two tests whose names differ in letter case only share an identifier
SharedIdentifier ==
    /\ Len(tests) = 2
    /\ tests[1].name = "a b" /\ tests[2].name = "A b"
    /\ tests[1].identifier = "A_B" /\ tests[2].identifier = "A_B"

-----------------------------------------------------------------------------
(* Claims about unavailable toolchains (SpecRun).                           *)

\* a toolchain for which discovery found no executable: an empty Collection
Undiscovered(compiler) == compiler.kind = "Collection" /\ compiler.data = <<>>

\* C16: for a toolchain of the test that is an empty Collection no Report is
\* produced, none of its assertions is checked, one skip line is printed,
\* and a failure of the test is a failed check of another toolchain.
C16_Unavailable ==
    pcRun = "checking" =>
        /\ \A e \in 1..Len(test.assertions) :
              Undiscovered(test.assertions[e].compiler) =>
                  /\ results[e] = <<>>
                  /\ \A k \in 1..Len(evaluated) : evaluated[k].compiler # e
                  /\ \A k \in 1..Len(todo) : todo[k].compiler # e
                  /\ Cardinality({k \in 1..Len(skips) : skips[k] = e}) = 1
        /\ failed =>
              \E k \in 1..Len(evaluated) :
                  /\ ~evaluated[k].success
                  /\ ~Undiscovered(test.assertions[evaluated[k].compiler].compiler)
        /\ (todo = <<>> /\ \A e \in 1..Len(test.assertions) :
                               Undiscovered(test.assertions[e].compiler)) =>
              ~failed /\ evaluated = <<>>

\* C16 witness: the loops ended for a test that binds two assertions to msvc,
\* an empty Collection, and one to gcc; msvc was skipped, the checks of gcc
\* passed and the test did not fail
C16_Witness ==
    /\ pcRun = "checking" /\ todo = <<>> /\ ~failed
    /\ Len(test.assertions) = 2
    /\ test.assertions[1].compiler = msvc
    /\ Len(test.assertions[1].assertions) = 2
    /\ test.assertions[2].compiler = gcc
    /\ skips = <<1>>
    /\ Len(evaluated) = 2

-----------------------------------------------------------------------------
(* Claims about the order in which a closed range applies its bounds        *)
(* (SpecStd).                                                               *)

\* the outcome of applying the upper bound to the full list of the language
\* and then the lower bound to what is left
UpperThenLower(inst, lower, upper) ==
    LET inner == filter_standards(inst, upper, NoneV)
    IN  IF ~inner.ok THEN inner
        ELSE LET outer == filter_standards(inst, lower, PyList(inner.val))
             IN  IF ~outer.ok THEN outer ELSE Ok(flatten(outer.val))

\* a call that passed get_standards a well-formed closed range
ClosedRangeCall ==
    /\ call.op = "__init__"
    /\ call.arg.t = "tuple"
    /\ Len(call.arg.v) = 2
    /\ SubSeq(call.arg.v[1], 1, 1) = ">"
    /\ SubSeq(call.arg.v[2], 1, 1) = "<"

\* C17: the outcome of get_standards for a closed range (lower, upper), list
\* or error, is the outcome of applying the upper bound first and the lower
\* bound to the intermediate list.
C17_UpperBoundFirst ==
    ClosedRangeCall =>
        call.result = UpperThenLower(self, call.arg.v[1], call.arg.v[2])

\* where the two orders agree: whenever both bounds are found in the list the
\* other bound left, that is whenever neither order raises
OrdersAgreeOnLists ==
    ClosedRangeCall =>
        LET other == UpperThenLower(self, call.arg.v[1], call.arg.v[2])
        IN  (call.result.ok /\ other.ok) => call.result.val = other.val

\* a closed range that get_standards rejects and the other order answers
RaisesWhereUpperFirstYields ==
    /\ ClosedRangeCall
    /\ ~call.result.ok
    /\ UpperThenLower(self, call.arg.v[1], call.arg.v[2]).ok

\* a closed range that get_standards answers and the other order rejects
YieldsWhereUpperFirstRaises ==
    /\ ClosedRangeCall
    /\ call.result.ok
    /\ ~UpperThenLower(self, call.arg.v[1], call.arg.v[2]).ok

-----------------------------------------------------------------------------
(* Claims about toolchain instances as keys of the assertion map            *)
(* (SpecParse).                                                             *)

\* the fields of a toolchain object, without its identity
Fields(compiler) == [kind |-> compiler.kind, data |-> compiler.data]

\* the entries of an assertion map whose key has the fields of compiler
KeysLike(assertions, compiler) ==
    {k \in 1..Len(assertions) : Fields(assertions[k].compiler) = Fields(compiler)}

\* the Reports Test.run asks for under the keys that have the fields of
\* compiler: results holds one run_test per key
RECURSIVE CompiledFor(_, _)
CompiledFor(assertions, compiler) ==
    IF assertions = <<>> THEN 0
    ELSE (IF Fields(Head(assertions).compiler) = Fields(compiler)
          THEN run_test_count(Head(assertions).compiler) ELSE 0)
         + CompiledFor(Tail(assertions), compiler)

\* C18: toolchain instances with equal fields are one key of a test's
\* assertion map: the assertions bound through them are in one entry, and
\* the test compiles once per selected standard for them.
C18_EqualInstancesOneKey ==
    \A i \in 1..Len(tests) :
        \A k \in 1..Len(tests[i].assertions) :
            LET key == tests[i].assertions[k].compiler
            IN  /\ KeysLike(tests[i].assertions, key) = {k}
                /\ CompiledFor(tests[i].assertions, key) = run_test_count(key)

\* what holds as built: a Compiler object is a key of its own, so one object
\* has one entry in a test, however many assertions are bound through it
OneKeyPerObject ==
    \A i \in 1..Len(tests) :
        \A k, m \in 1..Len(tests[i].assertions) :
            LET key == tests[i].assertions[k].compiler
            IN  (key.kind = "Compiler" /\ tests[i].assertions[m].compiler.id = key.id)
                    => k = m

\* two Compiler objects with equal fields are two keys of one test, which
\* compiles twice for them
TwoKeysEqualFields ==
    /\ Len(tests) = 1 /\ Len(tests[1].assertions) = 2
    /\ tests[1].assertions[1].compiler = gccX
    /\ tests[1].assertions[2].compiler = gccY
    /\ Fields(gccX) = Fields(gccY)
    /\ CompiledFor(tests[1].assertions, gccX) = 2 * run_test_count(gccX)

-----------------------------------------------------------------------------
(* Claims about the discovery cache (SpecDisc).                             *)

\* the entries of the log that satisfy a test
Logged(Which(_)) == Cardinality({k \in 1..Len(probes) : Which(probes[k])})

\* the enumerations made for a family: PATH scans of VersionedCompiler.discover,
\* vswhere runs of MSVC.discover
Enumerations(cls) ==
    LET scan(e) == \/ e.cmd = "PATH" /\ e.key.v = cls
                   \/ e.cmd = "vswhere" /\ cls = "MSVC"
    IN  Logged(scan)

\* the processes a probe spawned for an executable path
Spawns(by, path) ==
    LET spawn(e) == e.by = by /\ e.key.v = path /\ e.cmd \in {"cl /help", "gcc -v --help"}
    IN  Logged(spawn)

ProbedPaths == {probes[k].key.v : k \in 1..Len(probes)}

\* C19: executable enumeration runs at most once per family, the version
\* probe and the standards probe each spawn their process at most once per
\* executable path, and one path has one cached version.
C19_DiscoveryCache ==
    /\ \A cls \in DiscFamilies : Enumerations(cls) <= 1
    /\ \A path \in ProbedPaths :
          /\ Spawns("version", path) <= 1
          /\ Spawns("standards", path) <= 1
    /\ \A e1, e2 \in cache.version : e1.key.v = e2.key.v => e1.val = e2.val

\* what holds as built: a cached function runs once per argument it has
\* returned for.  cl /help is spawned at most once per key, a str or a Path;
\* vswhere and VsDevCmd run at most once; GCC.discover is stored, and PATH
\* scanned once, only when no file of PATH matches
CacheAsBuilt ==
    /\ \A k, m \in 1..Len(probes) :
          (probes[k] = probes[m] /\ probes[k].cmd \in {"cl /help", "vswhere", "VsDevCmd"})
              => k = m
    /\ find_executables(host.path) = <<>> => Enumerations("GCC") <= 1
    /\ \A e \in cache.discover :
          e.cls = "GCC" => e.val = <<>>
    /\ \A e1, e2 \in cache.version : e1.key.v = e2.key.v => e1.val = e2.val

\* GCC.discover() was requested twice and scanned PATH twice
PathScannedAgain ==
    /\ request.op = "discover" /\ request.cls = "GCC"
    /\ ~request.ok /\ request.err = "NameError"
    /\ Enumerations("GCC") = 2

\* two GCC descriptors for one executable spawned gcc -v --help twice
StandardsProbedAgain ==
    /\ request.op = "new" /\ request.cls = "GCC" /\ ~request.ok
    /\ Spawns("standards", request.key.v) = 2

\* MSVC: one executable, passed as str and as Path, was probed twice
HelpSpawnedPerKeyType ==
    /\ request.op = "new" /\ request.cls = "MSVC" /\ request.ok
    /\ Spawns("standards", request.key.v) = 2

-----------------------------------------------------------------------------
(* Claims about the candidates of discovery (SpecDisc).                     *)

\* C20: the candidates discovery returns for a family hold no resolved
\* executable path twice, whether enumerated from PATH or listed by discover.
C20_NoDuplicateCandidates ==
    /\ \A i, j \in 1..Len(candidates) : candidates[i] = candidates[j] => i = j
    /\ \A i, j \in 1..Len(infos) :
          infos[i].executable.v = infos[j].executable.v => i = j

\* the matching file names of the existing directories of PATH
RECURSIVE MatchingNames(_)
MatchingNames(paths) ==
    IF paths = <<>> THEN 0
    ELSE (IF Head(paths).exists
          THEN Cardinality({k \in 1..Len(Head(paths).files) :
                               matches_gcc(Head(paths).files[k].name)})
          ELSE 0)
         + MatchingNames(Tail(paths))

\* what holds as built: find_executables yields one resolved path for every
\* matching file name of every PATH entry, equal or not; discover lists
\* nothing for GCC, its version probe raising at the first candidate, and
\* for MSVC what which finds for each architecture
CandidatesAsBuilt ==
    /\ request.op = "find_executables" =>
          Len(candidates) = MatchingNames(host.path)
    /\ (request.op = "discover" /\ request.cls = "GCC") =>
          /\ infos = <<>>
          /\ request.ok <=> find_executables(host.path) = <<>>
    /\ (request.op = "discover" /\ request.cls = "MSVC") =>
          /\ request.ok
          /\ Len(infos) = Cardinality({a \in {"x86", "amd64"} :
                                          host.system = "Windows" /\ host.cl[a] # ""})

\* gcc and gcc-12 are one file: the enumeration holds it twice
SameExecutableTwice ==
    /\ request.op = "find_executables"
    /\ candidates = <<"/usr/bin/gcc-12", "/usr/bin/gcc-12">>

\* PATH lists /usr/bin and /bin, one directory: the enumeration holds the
\* file four times
SameDirectoryTwice ==
    /\ request.op = "find_executables"
    /\ Len(candidates) = 4
    /\ \A i \in 1..4 : candidates[i] = "/usr/bin/gcc-12"


-----------------------------------------------------------------------------
(* C21: the diagnostics of a compile.                                        *)

\* the lines of the two streams in the order compile reads them: stderr, then
\* stdout
EmittedLines == splitlines(compiled.stderr) \o splitlines(compiled.stdout)

\* the lines among lines that the pattern of the family matches with level
OfLevel(family, lines, level) ==
    SelectSeq(lines, LAMBDA line :
                  /\ diagnostic_match(family, line).ok
                  /\ diagnostic_match(family, line).level = level)

\* C21: after a compile of any stdout and stderr, a line yields at most one
\* diagnostic and a line the pattern of the family does not match yields
\* none; every bucket of the report holds, in the order of the lines with
\* those of stderr before those of stdout, one diagnostic for each line
\* matched with its level; and every level is one of note, warning, error
\* and fatal error, so that no compile raises.
C21_DiagnosticsInEmissionOrder ==
    /\ pcCompile # "raised"
    /\ pcCompile = "compiled" =>
          \A emitted \in {EmittedLines} :
             /\ \A i \in 1..Len(emitted) :
                   LET m == diagnostic_match(compiled.family, emitted[i])
                       one == extract_lines(compiled.family, <<emitted[i]>>, <<>>)
                   IN  /\ one.ok
                       /\ Len(one.val) <= 1
                       /\ ~m.ok => one.val = <<>>
                       /\ m.ok => /\ m.level \in Levels
                                  /\ one.val = <<[level |-> m.level,
                                                  diagnostic |-> Diagnostic(m.message, m.error_code)]>>
             /\ DOMAIN compiled.result.diagnostics = Levels
             /\ \A level \in Levels :
                   LET bucket == compiled.result.diagnostics[level]
                       lines == OfLevel(compiled.family, emitted, level)
                   IN  /\ Len(bucket) = Len(lines)
                       /\ \A i \in 1..Len(lines) :
                             LET m == diagnostic_match(compiled.family, lines[i])
                             IN  bucket[i] = Diagnostic(m.message, m.error_code)

\* a compile by GCC whose stdout holds a line of MSVC, which the pattern does
\* not match, before an error, and whose stderr holds another error: the
\* error of stderr comes first
DiagnosticsOfBothStreams ==
    /\ pcCompile = "compiled"
    /\ compiled.family = "GCC"
    /\ compiled.stderr = "t.c:3: error: abc\n"
    /\ compiled.stdout = "t.c(3): error C2118: ab\nt.c:1:2: error: ab\n"
    /\ compiled.result.diagnostics["error"]
          = <<Diagnostic("abc", NoneV), Diagnostic("ab", NoneV)>>

-----------------------------------------------------------------------------
(* C22: the order of the C standards of a gcc (SpecOrder).                   *)

\* whether a holds the groups of b, each as often
IsPermutation(a, b) ==
    /\ Len(a) = Len(b)
    /\ \A group \in HelpGroups :
          Cardinality({i \in 1..Len(a) : a[i] = group})
             = Cardinality({i \in 1..Len(b) : b[i] = group})

\* the position in standards of the group that holds name, 0 without one
PositionOf(standards, name) ==
    LET named(standard) == has_name(standard, name)
    IN  first_index(standards, named)

\* the claim for a help text that lists groups and a call that gave outcome
ReorderedAsClaimed(groups, given) ==
    LET parsed_c == by_language(groups)["c"]
        iso94 == PositionOf(parsed_c, "iso9899:199409")
        c99 == PositionOf(parsed_c, "c99")
    IN  /\ given.ok =>
             /\ IsPermutation(given.val["c"], parsed_c)
             /\ iso94 > 0 /\ c99 > 0 =>
                   PositionOf(given.val["c"], "iso9899:199409")
                      < PositionOf(given.val["c"], "c99")
        /\ iso94 > 0 /\ c99 > 0 /\ iso94 > c99 => given.ok
        /\ iso94 > 0 /\ c99 > 0 /\ iso94 < c99 => given = Raise("AssertionError")

\* C22: for every list of alias groups in the help text of a gcc, the list of
\* the language c that get_supported_standards returns is a permutation of
\* the groups parsed for c; when the groups of iso9899:199409 and of c99 are
\* both listed, with c99 first, a list is returned and iso9899:199409 comes
\* before c99 in it; when they are listed with iso9899:199409 first, the
\* call ends in the AssertionError of its precondition.
C22_StandardsReordered ==
    pcStandards \in {"returned", "raised"} => ReorderedAsClaimed(listing, supported)

\* what holds as built: every call ends in the NameError of get_standards_raw
StandardsAsBuilt ==
    pcStandards # "ready" => pcStandards = "raised" /\ supported = Raise("NameError")

\* what holds of lines 59 to 85 alone, get_standards_raw returning the
\* groups: the claim, unless the loop ends in StopIteration
ReorderingAfterRaw ==
    LET given == reordered(listing)
    IN  given.err # "StopIteration" => ReorderedAsClaimed(listing, given)

\* the help text of a gcc: c11, c90, c99, iso9899:199409; no list comes back
ListingOfGccRaisesNameError ==
    /\ pcStandards = "raised"
    /\ listing = <<C11, C90, C99, ISO94>>
    /\ supported.err = "NameError"
    /\ reordered(listing) = Ok([by_language(listing) EXCEPT
                                   !["c"] = <<C90, ISO94, C99, C11>>])

\* gnu groups none of which holds a 9 in its first name: lines 59 to 85 end
\* in StopIteration although c99 and iso9899:199409 are listed as expected
GnuWithoutNineStops ==
    /\ listing = <<C99, ISO94, GNU11>>
    /\ reordered(listing) = Raise("StopIteration")

\* the two groups listed with iso9899:199409 first: lines 59 to 85 end in
\* the AssertionError
ListedInOrderAsserts ==
    /\ listing = <<ISO94, C99>>
    /\ reordered(listing) = Raise("AssertionError")

-----------------------------------------------------------------------------
(* C23: what | leaves of its operands (SpecOr).                              *)

\* C23: after a | b, for Compilers and Collections alike, a alone and b
\* alone stand for the compilers they stood for before the |.
C23_OperandsUnchanged ==
    combined # NoOr =>
       /\ denotes(heap, combined.left) = denotes(combined.before, combined.left)
       /\ denotes(heap, combined.right) = denotes(combined.before, combined.right)

\* what holds: a | b stands for the compilers of a and then those of b when
\* a is a Collection or b is a Compiler, and for those of b and then a when
\* a is a Compiler and b a Collection; only the | of two Compilers makes a
\* new object and leaves every Collection as it was
OrAsBuilt ==
    combined # NoOr =>
       LET a == combined.left
           b == combined.right
           was(x) == denotes(combined.before, x)
       IN  /\ denotes(heap, combined.result)
                = IF a.kind = "Compiler" /\ b.kind = "Collection"
                  THEN was(b) \o was(a) ELSE was(a) \o was(b)
           /\ a.kind = "Collection" => combined.result = a
           /\ a.kind = "Compiler" /\ b.kind = "Collection" => combined.result = b
           /\ a.kind = "Compiler" /\ b.kind = "Compiler" =>
                 /\ combined.result = Ref(Len(combined.before) + 1)
                 /\ SubSeq(heap, 1, Len(combined.before)) = combined.before

\* two discovered Collections a and b, a | b, then an assertion added for a
\* alone: a stands for the compilers of b as well
LeftCollectionGrew ==
    /\ combined.before = <<<<"cl x64">>, <<"cl x64", "cl x86">>>>
    /\ combined.left = Ref(1)
    /\ combined.right = Ref(2)
    /\ keyed = Ref(1)
    /\ denotes(heap, keyed) = <<"cl x64", "cl x64", "cl x86">>

\* a Compiler a and a Collection b, a | b, then an assertion added for b
\* alone: b stands for a as well
RightCollectionGrew ==
    /\ combined.left = Single("cl x86")
    /\ combined.right = Ref(1)
    /\ combined.before[1] = <<"cl x64">>
    /\ keyed = Ref(1)
    /\ denotes(heap, keyed) = <<"cl x64", "cl x86">>
=============================================================================
